---- MODULE Spec2Model ----
(***************************************************************************)
(* Knightmare chess engine: board, game state (make/undo), move generation *)
(* and alpha-beta search, modelled from src/chess_engine.                  *)
(*                                                                         *)
(* Python strings are sequences of one-character strings.  A board is a    *)
(* function 0..63 -> piece character, indexed exactly as Board.squares.    *)
(* Optional[str] None is the value None, Optional[int] None is NoSquare.   *)
(***************************************************************************)
EXTENDS Integers, Sequences, FiniteSets, TLC

None == "None"
NoSquare == -1

(* ------------------------------ utils.py ------------------------------ *)

FILES == <<"a", "b", "c", "d", "e", "f", "g", "h">>
RANKS == <<"1", "2", "3", "4", "5", "6", "7", "8">>
DIGITS == <<"0", "1", "2", "3", "4", "5", "6", "7", "8", "9">>

\* s.index(ch) for a character known to occur in s (0-based)
IndexOf(s, ch) == (CHOOSE i \in 1..Len(s) : s[i] = ch /\ \A j \in 1..(i - 1) : s[j] # ch) - 1

Contains(s, ch) == \E i \in 1..Len(s) : s[i] = ch

isdigit(ch) == Contains(DIGITS, ch)

\* int(ch) for a single decimal digit
DigitValue(ch) == IndexOf(DIGITS, ch)

\* str(n) for a natural number
RECURSIVE str(_)
str(n) == IF n < 10 THEN <<DIGITS[n + 1]>> ELSE str(n \div 10) \o <<DIGITS[(n % 10) + 1]>>

\* int(s) for a non-empty string of decimal digits
RECURSIVE int(_)
int(s) == IF Len(s) = 1 THEN DigitValue(s[1])
          ELSE 10 * int(SubSeq(s, 1, Len(s) - 1)) + DigitValue(s[Len(s)])

index_to_square(index) == <<FILES[(index % 8) + 1], RANKS[(8 - (index \div 8) - 1) + 1]>>

\* a square_to_index that takes any decimal digit for the rank
square_to_index_any_digit(square) ==
    IF Len(square) # 2 \/ ~Contains(FILES, square[1]) \/ ~isdigit(square[2])
    THEN NoSquare
    ELSE (8 - DigitValue(square[2])) * 8 + IndexOf(FILES, square[1])

\* square_to_index raises ValueError on a malformed square: modelled as NoSquare
square_to_index(square) ==
    IF Len(square) # 2 \/ ~Contains(FILES, square[1]) \/ ~Contains(RANKS, square[2])
    THEN NoSquare
    ELSE (8 - (IndexOf(RANKS, square[2]) + 1)) * 8 + IndexOf(FILES, square[1])

UPPERS ==
    <<"A", "B", "C", "D", "E", "F", "G", "H", "I", "J", "K", "L", "M",
      "N", "O", "P", "Q", "R", "S", "T", "U", "V", "W", "X", "Y", "Z">>
LOWERS ==
    <<"a", "b", "c", "d", "e", "f", "g", "h", "i", "j", "k", "l", "m",
      "n", "o", "p", "q", "r", "s", "t", "u", "v", "w", "x", "y", "z">>

isupper(ch) == Contains(UPPERS, ch)
upper(ch) == IF Contains(LOWERS, ch) THEN UPPERS[IndexOf(LOWERS, ch) + 1] ELSE ch
lower(ch) == IF Contains(UPPERS, ch) THEN LOWERS[IndexOf(UPPERS, ch) + 1] ELSE ch

piece_color(piece) == IF piece = "." THEN None ELSE IF isupper(piece) THEN "w" ELSE "b"

PIECE_VALUES(p) ==
    CASE p = "P" -> 100
      [] p = "N" -> 320
      [] p = "B" -> 330
      [] p = "R" -> 500
      [] p = "Q" -> 900
      [] p = "K" -> 0
      [] OTHER -> 0

(* ------------------------------ board.py ------------------------------ *)

START_FEN == <<"r","n","b","q","k","b","n","r","/","p","p","p","p","p","p","p","p","/",
               "8","/","8","/","8","/","8","/",
               "P","P","P","P","P","P","P","P","/","R","N","B","Q","K","B","N","R">>

\* s.split(sep): the list of maximal pieces between separators
RECURSIVE SplitFrom(_, _, _, _)
SplitFrom(s, sep, i, cur) ==
    IF i > Len(s) THEN <<cur>>
    ELSE IF s[i] = sep THEN <<cur>> \o SplitFrom(s, sep, i + 1, <<>>)
    ELSE SplitFrom(s, sep, i + 1, Append(cur, s[i]))

split(s, sep) == SplitFrom(s, sep, 1, <<>>)

\* [x] * n
RECURSIVE Repeat(_, _)
Repeat(x, n) == IF n <= 0 THEN <<>> ELSE <<x>> \o Repeat(x, n - 1)

\* the inner loops of Board.from_fen: expand one row string into cells
RECURSIVE ExpandRow(_, _)
ExpandRow(row, i) ==
    IF i > Len(row) THEN <<>>
    ELSE (IF isdigit(row[i]) THEN Repeat(".", DigitValue(row[i])) ELSE <<row[i]>>)
         \o ExpandRow(row, i + 1)

RECURSIVE ExpandRows(_, _)
ExpandRows(rows, r) ==
    IF r > Len(rows) THEN <<>> ELSE ExpandRow(rows[r], 1) \o ExpandRows(rows, r + 1)

\* Board.from_fen: error (ValueError) or the 64 squares, indexed 0..63
Board_from_fen(board_fen) ==
    LET rows == split(board_fen, "/")
        cells == ExpandRows(rows, 1)
    IN IF Len(rows) # 8 THEN [error |-> TRUE, squares |-> <<>>]
       ELSE IF Len(cells) # 64 THEN [error |-> TRUE, squares |-> <<>>]
       ELSE [error |-> FALSE, squares |-> [i \in 0..63 |-> cells[i + 1]]]

\* a to_fen that drops the count of the empties at the end of a row
RECURSIVE FenRowNoTrailingCount(_, _, _, _)
\* Board.copy: a new Board around a new list with the same 64 cells
Board_copy(squares) == [i \in 0..63 |-> squares[i]]

FenRowNoTrailingCount(squares, r, c, empty) ==
    IF c > 7 THEN <<>>
    ELSE LET piece == squares[r * 8 + c]
         IN IF piece = "." THEN FenRowNoTrailingCount(squares, r, c + 1, empty + 1)
            ELSE (IF empty # 0 THEN str(empty) ELSE <<>>) \o <<piece>>
                 \o FenRowNoTrailingCount(squares, r, c + 1, 0)

\* one row of Board.to_fen: run-length encode the empties
RECURSIVE FenRow(_, _, _, _)
FenRow(squares, r, c, empty) ==
    IF c > 7 THEN (IF empty # 0 THEN str(empty) ELSE <<>>)
    ELSE LET piece == squares[r * 8 + c]
         IN IF piece = "." THEN FenRow(squares, r, c + 1, empty + 1)
            ELSE (IF empty # 0 THEN str(empty) ELSE <<>>) \o <<piece>>
                 \o FenRow(squares, r, c + 1, 0)

\* "/".join(fen_rows)
RECURSIVE FenRows(_, _)
FenRows(squares, r) ==
    IF r = 7 THEN FenRow(squares, r, 0, 0)
    ELSE FenRow(squares, r, 0, 0) \o <<"/">> \o FenRows(squares, r + 1)

Board_to_fen(squares) == FenRows(squares, 0)

\* Board.locate_king: first index holding the king, NoSquare for the ValueError
locate_king(squares, color) ==
    LET target == IF color = "w" THEN "K" ELSE "k"
    IN IF \E i \in 0..63 : squares[i] = target
       THEN CHOOSE i \in 0..63 : squares[i] = target /\ \A j \in 0..(i - 1) : squares[j] # target
       ELSE NoSquare

(* ---------------------------- game_state.py ---------------------------- *)

\* Move dataclass
Move(from_square, to_square, promotion, is_castle, is_en_passant, captured) ==
    [from_square |-> from_square, to_square |-> to_square, promotion |-> promotion,
     is_castle |-> is_castle, is_en_passant |-> is_en_passant, captured |-> captured]

\* Move.__eq__ as @dataclass generates it: the tuples of all six fields are equal
Move_eq(a, b) ==
    <<a.from_square, a.to_square, a.promotion, a.is_castle, a.is_en_passant, a.captured>>
       = <<b.from_square, b.to_square, b.promotion, b.is_castle, b.is_en_passant, b.captured>>

\* Optional[Move] None
NoMove == Move(NoSquare, NoSquare, None, FALSE, FALSE, None)

\* GameState.repetition_key
repetition_key(st) ==
    LET castling == IF st.castling_rights = <<>> THEN <<"-">> ELSE st.castling_rights
        ep == IF st.en_passant = NoSquare THEN <<"-">> ELSE index_to_square(st.en_passant)
    IN Board_to_fen(st.board) \o <<" ">> \o <<st.side_to_move>> \o <<" ">> \o castling
       \o <<" ">> \o ep

\* dict.get(key, default)
Get(d, key, default) == IF key \in DOMAIN d THEN d[key] ELSE default

\* d[key] = value
Put(d, key, value) == [k \in (DOMAIN d) \cup {key} |-> IF k = key THEN value ELSE d[k]]

\* d.pop(key, None)
Pop(d, key) == [k \in (DOMAIN d) \ {key} |-> d[k]]

\* update_repetition, given the key it computed
Counted(st, key) ==
    [st EXCEPT !.repetition = Put(st.repetition, key, Get(st.repetition, key, 0) + 1)]

\* GameState.update_repetition: the state with the current key counted once more
update_repetition(st) == Counted(st, repetition_key(st))

\* an is_draw_by_repetition that waits for a fourth occurrence
is_draw_by_fourfold(st) == Get(st.repetition, repetition_key(st), 0) > 3

\* GameState.is_draw_by_repetition
is_draw_by_repetition(st) == Get(st.repetition, repetition_key(st), 0) >= 3

\* GameState.__init__
GameState(squares, side_to_move, castling_rights, en_passant, halfmove_clock, fullmove_number) ==
    update_repetition(
        [board |-> squares,
         side_to_move |-> side_to_move,
         castling_rights |-> IF castling_rights # <<"-">> THEN castling_rights ELSE <<>>,
         en_passant |-> en_passant,
         halfmove_clock |-> halfmove_clock,
         fullmove_number |-> fullmove_number,
         history |-> <<>>,
         repetition |-> <<>>])

\* fen.strip().split(): the non-empty pieces between blanks
NonEmpty(piece) == piece # <<>>
Fields(fen) == SelectSeq(split(fen, " "), NonEmpty)

\* GameState.from_fen: error (ValueError) or the constructed state
from_fen(fen) ==
    LET parts == Fields(fen)
        b == Board_from_fen(parts[1])
        castling == IF parts[3] = <<"-">> THEN <<>> ELSE parts[3]
        ep == IF parts[4] = <<"-">> THEN NoSquare ELSE square_to_index(parts[4])
    IN IF Len(parts) # 6 THEN [error |-> TRUE]
       ELSE IF b.error THEN [error |-> TRUE]
       ELSE IF parts[4] # <<"-">> /\ ep = NoSquare THEN [error |-> TRUE]
       ELSE [error |-> FALSE,
             state |-> GameState(b.squares, parts[2][1], castling, ep, int(parts[5]), int(parts[6]))]

\* a clone that hands its own board list to the new GameState
clone_sharing_board(st) ==
    [state |-> [GameState(st.board, st.side_to_move, st.castling_rights, st.en_passant,
                          st.halfmove_clock, st.fullmove_number)
                   EXCEPT !.repetition = st.repetition],
     shared |-> {"board"}]

\* GameState.clone: the new GameState, and the mutable objects (board list,
\* repetition dict, history list) it shares with the original; the board and
\* the repetition table are copies and the constructor makes a new history
clone(st) ==
    [state |-> [GameState(Board_copy(st.board), st.side_to_move, st.castling_rights,
                          st.en_passant, st.halfmove_clock, st.fullmove_number)
                   EXCEPT !.repetition = st.repetition],
     shared |-> {}]

\* GameState.to_fen
to_fen(st) ==
    LET castling == IF st.castling_rights = <<>> THEN <<"-">> ELSE st.castling_rights
        ep == IF st.en_passant = NoSquare THEN <<"-">> ELSE index_to_square(st.en_passant)
    IN Board_to_fen(st.board) \o <<" ">> \o <<st.side_to_move>> \o <<" ">> \o castling
       \o <<" ">> \o ep \o <<" ">> \o str(st.halfmove_clock) \o <<" ">> \o str(st.fullmove_number)

\* GameState.starting_state
starting_state == from_fen(START_FEN \o <<" ", "w", " ", "K", "Q", "k", "q", " ", "-", " ", "0", " ", "1">>).state

on_board(r, c) == 0 <= r /\ r < 8 /\ 0 <= c /\ c < 8

knight_steps == << <<-2, -1>>, <<-2, 1>>, <<-1, -2>>, <<-1, 2>>, <<1, -2>>, <<1, 2>>, <<2, -1>>, <<2, 1>> >>
diag_dirs == << <<-1, -1>>, <<-1, 1>>, <<1, -1>>, <<1, 1>> >>
ortho_dirs == << <<-1, 0>>, <<1, 0>>, <<0, -1>>, <<0, 1>> >>

\* a ray that looks past the pieces in its way
RECURSIVE RayAttackedThroughPieces(_, _, _, _, _, _)
RayAttackedThroughPieces(squares, nr, nc, dr, dc, attackers) ==
    IF ~on_board(nr, nc) THEN FALSE
    ELSE IF squares[nr * 8 + nc] \in attackers THEN TRUE
    ELSE RayAttackedThroughPieces(squares, nr + dr, nc + dc, dr, dc, attackers)

\* the while loop of is_square_attacked along one direction: the first piece
\* met is one of the attackers
RECURSIVE RayAttacked(_, _, _, _, _, _)
RayAttacked(squares, nr, nc, dr, dc, attackers) ==
    IF ~on_board(nr, nc) THEN FALSE
    ELSE LET piece == squares[nr * 8 + nc]
         IN IF piece # "." THEN piece \in attackers
            ELSE RayAttacked(squares, nr + dr, nc + dc, dr, dc, attackers)

\* GameState.is_square_attacked
is_square_attacked(squares, square, by_color) ==
    LET row == square \div 8
        col == square % 8
        pawn_dir == IF by_color = "w" THEN 1 ELSE -1
        king_dirs == diag_dirs \o ortho_dirs
    IN \/ \E dc \in {-1, 1} :
             /\ on_board(row + pawn_dir, col + dc)
             /\ squares[(row + pawn_dir) * 8 + col + dc] = (IF by_color = "w" THEN "P" ELSE "p")
       \/ \E i \in 1..Len(knight_steps) :
             /\ on_board(row + knight_steps[i][1], col + knight_steps[i][2])
             /\ squares[(row + knight_steps[i][1]) * 8 + col + knight_steps[i][2]]
                  = (IF by_color = "w" THEN "N" ELSE "n")
       \/ \E i \in 1..Len(diag_dirs) :
             RayAttacked(squares, row + diag_dirs[i][1], col + diag_dirs[i][2],
                         diag_dirs[i][1], diag_dirs[i][2],
                         IF by_color = "w" THEN {"B", "Q"} ELSE {"b", "q"})
       \/ \E i \in 1..Len(ortho_dirs) :
             RayAttacked(squares, row + ortho_dirs[i][1], col + ortho_dirs[i][2],
                         ortho_dirs[i][1], ortho_dirs[i][2],
                         IF by_color = "w" THEN {"R", "Q"} ELSE {"r", "q"})
       \/ \E i \in 1..Len(king_dirs) :
             /\ on_board(row + king_dirs[i][1], col + king_dirs[i][2])
             /\ squares[(row + king_dirs[i][1]) * 8 + col + king_dirs[i][2]]
                  = (IF by_color = "w" THEN "K" ELSE "k")

\* GameState.is_in_check, for a board that holds the king of that colour
is_in_check(st, color) ==
    LET king_sq == locate_king(st.board, color)
        enemy == IF color = "w" THEN "b" ELSE "w"
    IN is_square_attacked(st.board, king_sq, enemy)

\* an insufficient_material that accepts any number of minor pieces
insufficient_material_any_minors(st) ==
    \A i \in 0..63 : st.board[i] = "." \/ upper(st.board[i]) \in {"K", "B", "N"}

\* GameState.insufficient_material
insufficient_material(st) ==
    LET occupied == {i \in 0..63 : st.board[i] # "."}
        minor_pieces == {i \in occupied : upper(st.board[i]) \in {"B", "N"}}
    IN \/ \A i \in occupied : upper(st.board[i]) = "K"
       \/ Cardinality(occupied) = 3 /\ Cardinality(minor_pieces) = 1

\* remove_castle inside make_move: str.replace(right, "")
remove_castle(rights, right) == SelectSeq(rights, LAMBDA ch : ch # right)

\* the squares named in make_move and in the castling generator
a1 == square_to_index(<<"a", "1">>)
b1 == square_to_index(<<"b", "1">>)
c1 == square_to_index(<<"c", "1">>)
d1 == square_to_index(<<"d", "1">>)
f1 == square_to_index(<<"f", "1">>)
g1 == square_to_index(<<"g", "1">>)
h1 == square_to_index(<<"h", "1">>)
a8 == square_to_index(<<"a", "8">>)
b8 == square_to_index(<<"b", "8">>)
c8 == square_to_index(<<"c", "8">>)
d8 == square_to_index(<<"d", "8">>)
f8 == square_to_index(<<"f", "8">>)
g8 == square_to_index(<<"g", "8">>)
h8 == square_to_index(<<"h", "8">>)

\* make_move, castling branch: (rook_from, rook_to) for the king's destination
CastleRookSquares(to_square) ==
    CASE to_square = g1 -> <<h1, f1>>
      [] to_square = c1 -> <<a1, d1>>
      [] to_square = g8 -> <<h8, f8>>
      [] to_square = c8 -> <<a8, d8>>
      [] OTHER -> <<>>

\* remove_castle(right) when the condition holds
RemoveIf(condition, rights, right) == IF condition THEN remove_castle(rights, right) ELSE rights

\* make_move, castling-rights update: the king moved
KingMoved(rights, moved_piece) ==
    IF moved_piece = "K" THEN remove_castle(remove_castle(rights, "K"), "Q")
    ELSE IF moved_piece = "k" THEN remove_castle(remove_castle(rights, "k"), "q")
    ELSE rights

\* a rights update that forgets the rook that left its corner
RookMovedKeepsRights(rights, moved_piece, move) == rights

\* make_move, castling-rights update: a rook left its corner
RookMoved(rights, moved_piece, move) ==
    IF moved_piece = "R"
    THEN (IF move.from_square = a1 THEN remove_castle(rights, "Q")
          ELSE IF move.from_square = h1 THEN remove_castle(rights, "K") ELSE rights)
    ELSE IF moved_piece = "r"
    THEN (IF move.from_square = a8 THEN remove_castle(rights, "q")
          ELSE IF move.from_square = h8 THEN remove_castle(rights, "k") ELSE rights)
    ELSE rights

\* RookCaptured without the updates for a captured rook
RookCapturedKeepsRights(rights, captured_piece, move) == rights

\* make_move, castling-rights update: a rook was captured on its corner
RookCaptured(rights, captured_piece, move) ==
    RemoveIf(captured_piece = "r" /\ move.to_square = h8,
      RemoveIf(captured_piece = "r" /\ move.to_square = a8,
        RemoveIf(captured_piece = "R" /\ move.to_square = h1,
          RemoveIf(captured_piece = "R" /\ move.to_square = a1, rights, "Q"), "K"), "q"), "k")

\* make_move, castling-rights update
CastlingAfter(rights, moved_piece, captured_piece, move) ==
    RookCaptured(RookMoved(KingMoved(rights, moved_piece), moved_piece, move),
                 captured_piece, move)

abs(x) == IF x < 0 THEN -x ELSE x

\* a make_move that never sets the en passant target
EnPassantNeverSet(moved_piece, move) == NoSquare

\* EnPassantAfter with the target set for any piece moving two ranks
EnPassantAnyPiece(moved_piece, move) ==
    IF abs(move.to_square - move.from_square) = 16
    THEN (move.to_square + move.from_square) \div 2
    ELSE NoSquare

\* make_move, en passant target
EnPassantAfter(moved_piece, move) ==
    IF upper(moved_piece) = "P" /\ abs(move.to_square - move.from_square) = 16
    THEN (move.to_square + move.from_square) \div 2
    ELSE NoSquare

\* HalfmoveAfter with the clock reset by captures only
HalfmoveResetByCaptureOnly(halfmove_clock, moved_piece, captured_piece) ==
    IF captured_piece # None THEN 0 ELSE halfmove_clock + 1

\* make_move, halfmove clock
HalfmoveAfter(halfmove_clock, moved_piece, captured_piece) ==
    IF upper(moved_piece) = "P" \/ captured_piece # None THEN 0 ELSE halfmove_clock + 1

\* make_move, fullmove number
FullmoveAfter(fullmove_number, side_to_move) ==
    IF side_to_move = "b" THEN fullmove_number + 1 ELSE fullmove_number

\* an ep_capture_square on the far side of the target
EpCaptureSquareAhead(side, move) ==
    IF move.is_en_passant
    THEN (IF side = "w" THEN move.to_square - 8 ELSE move.to_square + 8)
    ELSE NoSquare

\* make_move: ep_capture_square
EpCaptureSquare(side, move) ==
    IF move.is_en_passant
    THEN (IF side = "w" THEN move.to_square + 8 ELSE move.to_square - 8)
    ELSE NoSquare

\* make_move: captured_piece
CapturedPiece(squares, side, move) ==
    IF move.is_en_passant THEN squares[EpCaptureSquare(side, move)]
    ELSE IF squares[move.to_square] # "." THEN squares[move.to_square]
    ELSE None

\* a placed_piece that writes every promoted piece in upper case
PlacedPieceUpperCase(moved_piece, side, move) ==
    IF move.promotion # None THEN upper(move.promotion) ELSE moved_piece

\* make_move: placed_piece
PlacedPiece(moved_piece, side, move) ==
    IF move.promotion # None
    THEN (IF side = "w" THEN upper(move.promotion) ELSE lower(move.promotion))
    ELSE moved_piece

\* make_move, "Handle en passant capture": the pawn behind the target leaves
EnPassantRemoved(squares, side, move) ==
    IF move.is_en_passant THEN [squares EXCEPT ![EpCaptureSquare(side, move)] = "."]
    ELSE squares

\* make_move, "Move piece"
PieceMoved(squares, placed_piece, move) ==
    [squares EXCEPT ![move.from_square] = ".", ![move.to_square] = placed_piece]

\* make_move, "Castling rook move": rook_move, read on the board after the king moved
RookMove(squares, move) ==
    IF move.is_castle /\ CastleRookSquares(move.to_square) # <<>>
    THEN <<CastleRookSquares(move.to_square)[1], CastleRookSquares(move.to_square)[2],
           squares[CastleRookSquares(move.to_square)[1]]>>
    ELSE <<>>

\* a castling rook move that writes the rook on its destination and leaves it on
\* its corner as well
RookRelocatedKeepsCorner(squares, rook_move) ==
    IF rook_move # <<>> THEN [squares EXCEPT ![rook_move[2]] = rook_move[3]] ELSE squares

\* make_move, "Castling rook move": the board edit
RookRelocated(squares, rook_move) ==
    IF rook_move # <<>>
    THEN [squares EXCEPT ![rook_move[1]] = ".", ![rook_move[2]] = rook_move[3]]
    ELSE squares

\* make_move: the entry appended to history
HistoryRecord(st, move, captured_piece, rook_move, rep_key) ==
    [move |-> move,
     captured |-> captured_piece,
     moved_piece |-> st.board[move.from_square],
     prev_castling |-> st.castling_rights,
     prev_en_passant |-> st.en_passant,
     prev_halfmove |-> st.halfmove_clock,
     prev_fullmove |-> st.fullmove_number,
     prev_side |-> st.side_to_move,
     rook_move |-> rook_move,
     ep_capture_square |-> EpCaptureSquare(st.side_to_move, move),
     rep_key |-> rep_key]

\* make_move from "rep_key = self.update_repetition()" on
Recorded(st, move, captured_piece, rook_move, moved, rep_key) ==
    [Counted(moved, rep_key) EXCEPT
        !.history = Append(st.history,
                           HistoryRecord(st, move, captured_piece, rook_move, rep_key))]

\* make_move up to "Switch side", given the board after the pieces moved
Switched(st, move, captured_piece, squares) ==
    [board |-> squares,
     side_to_move |-> IF st.side_to_move = "w" THEN "b" ELSE "w",
     castling_rights |-> CastlingAfter(st.castling_rights, st.board[move.from_square],
                                       captured_piece, move),
     en_passant |-> EnPassantAfter(st.board[move.from_square], move),
     halfmove_clock |-> HalfmoveAfter(st.halfmove_clock, st.board[move.from_square],
                                      captured_piece),
     fullmove_number |-> FullmoveAfter(st.fullmove_number, st.side_to_move),
     history |-> st.history,
     repetition |-> st.repetition]

\* make_move, given captured_piece, rook_move and the position after the move
Repeated(st, move, captured_piece, rook_move, moved) ==
    Recorded(st, move, captured_piece, rook_move, moved, repetition_key(moved))

\* make_move, given captured_piece, the board after "Move piece" and rook_move
Castled(st, move, captured_piece, squares, rook_move) ==
    Repeated(st, move, captured_piece, rook_move,
             Switched(st, move, captured_piece, RookRelocated(squares, rook_move)))

\* make_move, given captured_piece and the board after "Move piece"
Placed(st, move, captured_piece, squares) ==
    Castled(st, move, captured_piece, squares, RookMove(squares, move))

\* GameState.make_move for a move whose from-square holds a piece
make_move(st, move) ==
    Placed(st, move, CapturedPiece(st.board, st.side_to_move, move),
           PieceMoved(EnPassantRemoved(st.board, st.side_to_move, move),
                      PlacedPiece(st.board[move.from_square], st.side_to_move, move), move))

\* a make_move that finds the empty source square after it wrote the board
MakeMoveCallChecksLate(st, move) ==
    IF st.board[move.from_square] = "."
    THEN [raised |-> "ValueError",
          state |-> [st EXCEPT !.board = PieceMoved(st.board, ".", move)]]
    ELSE [raised |-> None, state |-> make_move(st, move)]

\* GameState.make_move as its caller sees it: the exception it raises, if any,
\* and the position it leaves
MakeMoveCall(st, move) ==
    IF st.board[move.from_square] = "."
    THEN [raised |-> "ValueError", state |-> st]
    ELSE [raised |-> None, state |-> make_move(st, move)]

\* an undo_move that leaves the repetition table as make_move left it
UncountedNever(repetition, rep_key) == repetition

\* an undo_move that counts the position down and keeps the key at zero
UncountedKeepsKey(repetition, rep_key) ==
    Put(repetition, rep_key, Get(repetition, rep_key, 1) - 1)

\* undo_move: the repetition count of the undone position, removed at zero
Uncounted(repetition, rep_key) ==
    IF Get(repetition, rep_key, 1) - 1 <= 0 THEN Pop(repetition, rep_key)
    ELSE Put(repetition, rep_key, Get(repetition, rep_key, 1) - 1)

\* undo_move, "Undo board changes": from-square and to-square
PieceRestored(squares, last) ==
    [squares EXCEPT ![last.move.from_square] = last.moved_piece,
                    ![last.move.to_square] = IF last.captured # None THEN last.captured
                                             ELSE "."]

\* an undo_move that handles an en passant capture like any other move
EnPassantNotRestored(squares, last) == squares

\* undo_move: the en passant victim goes back behind the target
EnPassantRestored(squares, last) ==
    IF last.move.is_en_passant /\ last.ep_capture_square # NoSquare
    THEN [squares EXCEPT ![last.move.to_square] = ".",
                         ![last.ep_capture_square] = last.captured]
    ELSE squares

\* undo_move: a promoted piece becomes the pawn again
PromotionRestored(squares, last) ==
    IF last.move.promotion # None
    THEN [squares EXCEPT ![last.move.from_square] = last.moved_piece]
    ELSE squares

\* undo_move, "Undo rook move on castling"
RookRestored(squares, last) ==
    IF last.move.is_castle /\ last.rook_move # <<>>
    THEN [squares EXCEPT ![last.rook_move[1]] = last.rook_move[3],
                         ![last.rook_move[2]] = "."]
    ELSE squares

\* undo_move with a non-empty history, given the popped entry
Restored(st, last) ==
    [board |-> RookRestored(PromotionRestored(EnPassantRestored(
                   PieceRestored(st.board, last), last), last), last),
     side_to_move |-> last.prev_side,
     castling_rights |-> last.prev_castling,
     en_passant |-> last.prev_en_passant,
     halfmove_clock |-> last.prev_halfmove,
     fullmove_number |-> last.prev_fullmove,
     history |-> SubSeq(st.history, 1, Len(st.history) - 1),
     repetition |-> Uncounted(st.repetition, last.rep_key)]

\* an undo_move without the early return, that drops the count of the current
\* position when there is nothing to pop
undo_move_without_guard(st) ==
    IF st.history = <<>>
    THEN [st EXCEPT !.repetition = Uncounted(st.repetition, repetition_key(st))]
    ELSE Restored(st, st.history[Len(st.history)])

\* GameState.undo_move
undo_move(st) ==
    IF st.history = <<>> THEN st ELSE Restored(st, st.history[Len(st.history)])

(* -------------------------- move_generation.py -------------------------- *)

\* concatenation of a list of lists, in order
RECURSIVE Flatten(_)
Flatten(ss) == IF ss = <<>> THEN <<>> ELSE Head(ss) \o Flatten(Tail(ss))

PROMOS == <<"Q", "R", "B", "N">>

\* a pawn branch without the double push
PawnSinglePush(squares, side, idx) ==
    LET row == idx \div 8
        col == idx % 8
        dir == IF side = "w" THEN -1 ELSE 1
        promo_row == IF side = "w" THEN 0 ELSE 7
        fwd_r == row + dir
        dest == fwd_r * 8 + col
    IN IF on_board(fwd_r, col) /\ squares[dest] = "."
       THEN (IF fwd_r = promo_row
             THEN [i \in 1..4 |-> Move(idx, dest, PROMOS[i], FALSE, FALSE, None)]
             ELSE <<Move(idx, dest, None, FALSE, FALSE, None)>>)
       ELSE <<>>

\* pawn branch: single push (or its four promotions) and double push
PawnPushes(squares, side, idx) ==
    LET row == idx \div 8
        col == idx % 8
        dir == IF side = "w" THEN -1 ELSE 1
        start_row == IF side = "w" THEN 6 ELSE 1
        promo_row == IF side = "w" THEN 0 ELSE 7
        fwd_r == row + dir
        dest == fwd_r * 8 + col
        dest2 == (row + 2 * dir) * 8 + col
    IN IF on_board(fwd_r, col) /\ squares[dest] = "."
       THEN (IF fwd_r = promo_row
             THEN [i \in 1..4 |-> Move(idx, dest, PROMOS[i], FALSE, FALSE, None)]
             ELSE <<Move(idx, dest, None, FALSE, FALSE, None)>>)
            \o (IF row = start_row /\ squares[dest2] = "."
                THEN <<Move(idx, dest2, None, FALSE, FALSE, None)>> ELSE <<>>)
       ELSE <<>>

\* pawn branch: one iteration of "for dc in (-1, 1)": capture(s), then en passant
PawnCaptures(squares, side, en_passant, idx, dc) ==
    LET row == idx \div 8
        col == idx % 8
        enemy == IF side = "w" THEN "b" ELSE "w"
        dir == IF side = "w" THEN -1 ELSE 1
        promo_row == IF side = "w" THEN 0 ELSE 7
        cr == row + dir
        cc == col + dc
        target == cr * 8 + cc
        target_piece == squares[target]
    IN IF ~on_board(cr, cc) THEN <<>>
       ELSE (IF target_piece # "." /\ piece_color(target_piece) = enemy
             THEN (IF cr = promo_row
                   THEN [i \in 1..4 |-> Move(idx, target, PROMOS[i], FALSE, FALSE, target_piece)]
                   ELSE <<Move(idx, target, None, FALSE, FALSE, target_piece)>>)
             ELSE <<>>)
            \o (IF en_passant # NoSquare /\ target = en_passant
                THEN <<Move(idx, target, None, FALSE, TRUE, None)>> ELSE <<>>)

\* knight and king branches: one step of the offset table
StepMove(squares, side, idx, step) ==
    LET nr == (idx \div 8) + step[1]
        nc == (idx % 8) + step[2]
        enemy == IF side = "w" THEN "b" ELSE "w"
        dest == nr * 8 + nc
        target_piece == squares[dest]
    IN IF on_board(nr, nc) /\ (target_piece = "." \/ piece_color(target_piece) = enemy)
       THEN <<Move(idx, dest, None, FALSE, FALSE,
                   IF target_piece # "." THEN target_piece ELSE None)>>
       ELSE <<>>

\* a ray that captures the first enemy piece it meets and goes on behind it
RECURSIVE RayMovesPastCaptures(_, _, _, _, _, _, _)
RayMovesPastCaptures(squares, side, idx, nr, nc, dr, dc) ==
    IF ~on_board(nr, nc) THEN <<>>
    ELSE IF piece_color(squares[nr * 8 + nc]) = side THEN <<>>
    ELSE <<Move(idx, nr * 8 + nc, None, FALSE, FALSE,
                IF squares[nr * 8 + nc] # "." THEN squares[nr * 8 + nc] ELSE None)>>
         \o RayMovesPastCaptures(squares, side, idx, nr + dr, nc + dc, dr, dc)

\* bishop/rook/queen branch: the while loop along one direction
RECURSIVE RayMoves(_, _, _, _, _, _, _)
RayMoves(squares, side, idx, nr, nc, dr, dc) ==
    IF ~on_board(nr, nc) THEN <<>>
    ELSE LET dest == nr * 8 + nc
             target_piece == squares[dest]
             enemy == IF side = "w" THEN "b" ELSE "w"
         IN IF target_piece = "."
            THEN <<Move(idx, dest, None, FALSE, FALSE, None)>>
                 \o RayMoves(squares, side, idx, nr + dr, nc + dc, dr, dc)
            ELSE IF piece_color(target_piece) = enemy
            THEN <<Move(idx, dest, None, FALSE, FALSE, target_piece)>>
            ELSE <<>>

SliderDirections(up) ==
    (IF up \in {"B", "Q"} THEN diag_dirs ELSE <<>>)
    \o (IF up \in {"R", "Q"} THEN ortho_dirs ELSE <<>>)

king_dirs == << <<-1, -1>>, <<-1, 0>>, <<-1, 1>>, <<0, -1>>, <<0, 1>>, <<1, -1>>, <<1, 0>>, <<1, 1>> >>

\* a castling candidate that tests the king's square only, not the squares it crosses
CastleThroughCheck(st, idx, right, empties, safe, dest) ==
    LET enemy == IF st.side_to_move = "w" THEN "b" ELSE "w"
    IN IF /\ Contains(st.castling_rights, right)
          /\ \A sq \in empties : st.board[sq] = "."
          /\ ~is_square_attacked(st.board, idx, enemy)
       THEN <<Move(idx, dest, None, TRUE, FALSE, None)>>
       ELSE <<>>

\* one castling candidate: right held, squares between empty, king's path unattacked
CastleMove(st, idx, right, empties, safe, dest) ==
    LET enemy == IF st.side_to_move = "w" THEN "b" ELSE "w"
    IN IF /\ Contains(st.castling_rights, right)
          /\ \A sq \in empties : st.board[sq] = "."
          /\ ~is_square_attacked(st.board, idx, enemy)
          /\ \A sq \in safe : ~is_square_attacked(st.board, sq, enemy)
       THEN <<Move(idx, dest, None, TRUE, FALSE, None)>>
       ELSE <<>>

\* king branch: castling
CastlingMoves(st, idx) ==
    LET row == idx \div 8
        col == idx % 8
    IN IF st.side_to_move = "w" /\ row = 7 /\ col = 4
       THEN CastleMove(st, idx, "K", {f1, g1}, {f1, g1}, g1)
            \o CastleMove(st, idx, "Q", {b1, c1, d1}, {d1, c1}, c1)
       ELSE IF st.side_to_move = "b" /\ row = 0 /\ col = 4
       THEN CastleMove(st, idx, "k", {f8, g8}, {f8, g8}, g8)
            \o CastleMove(st, idx, "q", {b8, c8, d8}, {d8, c8}, c8)
       ELSE <<>>

\* the body of the loop over the board for one square
PieceMoves(st, idx) ==
    LET squares == st.board
        side == st.side_to_move
        piece == squares[idx]
        up == upper(piece)
    IN IF piece = "." \/ piece_color(piece) # side THEN <<>>
       ELSE IF up = "P"
       THEN PawnPushes(squares, side, idx)
            \o PawnCaptures(squares, side, st.en_passant, idx, -1)
            \o PawnCaptures(squares, side, st.en_passant, idx, 1)
       ELSE IF up = "N"
       THEN Flatten([i \in 1..8 |-> StepMove(squares, side, idx, knight_steps[i])])
       ELSE IF up \in {"B", "R", "Q"}
       THEN LET directions == SliderDirections(up)
            IN Flatten([i \in 1..Len(directions) |->
                   RayMoves(squares, side, idx, (idx \div 8) + directions[i][1],
                            (idx % 8) + directions[i][2], directions[i][1], directions[i][2])])
       ELSE IF up = "K"
       THEN Flatten([i \in 1..8 |-> StepMove(squares, side, idx, king_dirs[i])])
            \o CastlingMoves(st, idx)
       ELSE <<>>

\* generate_pseudo_legal_moves
generate_pseudo_legal_moves(st) == Flatten([i \in 1..64 |-> PieceMoves(st, i - 1)])

\* the loop of generate_legal_moves from candidate i on: every candidate is
\* applied, tested and undone on the one shared state
RECURSIVE LegalLoop(_, _, _, _, _)

\* a generate_legal_moves that tests the king of the side to move after the move
LegalStepTestsOpponent(made, pseudo_moves, color, i, legal) ==
    IF ~is_in_check(made, made.side_to_move)
    THEN LegalLoop(undo_move(made), pseudo_moves, color, i + 1, Append(legal, pseudo_moves[i]))
    ELSE LegalLoop(undo_move(made), pseudo_moves, color, i + 1, legal)

\* a generate_legal_moves that tests for check only after moves of other pieces
\* than the king
LegalStepTrustsKingMoves(made, pseudo_moves, color, i, legal) ==
    IF made.board[pseudo_moves[i].to_square] \in {"K", "k"} \/ ~is_in_check(made, color)
    THEN LegalLoop(undo_move(made), pseudo_moves, color, i + 1, Append(legal, pseudo_moves[i]))
    ELSE LegalLoop(undo_move(made), pseudo_moves, color, i + 1, legal)

\* one iteration, given the state after make_move
LegalStep(made, pseudo_moves, color, i, legal) ==
    IF ~is_in_check(made, color)
    THEN LegalLoop(undo_move(made), pseudo_moves, color, i + 1, Append(legal, pseudo_moves[i]))
    ELSE LegalLoop(undo_move(made), pseudo_moves, color, i + 1, legal)

LegalLoop(st, pseudo_moves, color, i, legal) ==
    IF i > Len(pseudo_moves) THEN [state |-> st, moves |-> legal]
    ELSE LegalStep(make_move(st, pseudo_moves[i]), pseudo_moves, color, i, legal)

\* generate_legal_moves: the list returned and the state it leaves behind
generate_legal_moves(st) ==
    LegalLoop(st, generate_pseudo_legal_moves(st), st.side_to_move, 1, <<>>)

(* ----------------------------- evaluation.py ----------------------------- *)

\* Scores are Python floats.  The model holds max_score times the float, which
\* is an integer for every score the search produces (material sums, 0.0, the
\* mate scores), so that comparisons and negation are exact.
max_score == 4000

\* the running sum of simple_material_eval over squares idx..63
RECURSIVE MaterialFrom(_, _)
MaterialFrom(squares, idx) ==
    IF idx > 63 THEN 0
    ELSE LET piece == squares[idx]
             value == PIECE_VALUES(upper(piece))
         IN (IF piece = "." THEN 0 ELSE IF piece_color(piece) = "w" THEN value ELSE -value)
            + MaterialFrom(squares, idx + 1)

\* simple_material_eval, times max_score
simple_material_eval(st) ==
    LET score == MaterialFrom(st.board, 0)
    IN IF st.side_to_move = "w" THEN score ELSE -score

\* evaluate_position with model=None
evaluate_position(st) == simple_material_eval(st)

(* ------------------------------- search.py ------------------------------- *)

MATE_VALUE == 10000

\* math.inf, above every score the search can produce
inf == 2000000000

max(a, b) == IF a >= b THEN a ELSE b

\* move_score inside order_moves
move_score(move) == IF move.captured # None THEN PIECE_VALUES(upper(move.captured)) ELSE 0

\* sorted(..., reverse=True) is stable: insert after every element scoring at least as much
RECURSIVE InsertByScore(_, _)
InsertByScore(sorted, move) ==
    IF sorted = <<>> THEN <<move>>
    ELSE IF move_score(Head(sorted)) >= move_score(move)
    THEN <<Head(sorted)>> \o InsertByScore(Tail(sorted), move)
    ELSE <<move>> \o sorted

RECURSIVE SortFrom(_, _, _)
SortFrom(moves, i, sorted) ==
    IF i > Len(moves) THEN sorted ELSE SortFrom(moves, i + 1, InsertByScore(sorted, moves[i]))

\* order_moves
order_moves(moves) == SortFrom(moves, 1, <<>>)

\* One activation of search_best_move, alpha_beta or quiescence_search:
\*   moves  the ordered list its for loop runs over
\*   i      how many of them the loop has passed (moves[i] is applied while a
\*          callee runs)
\*   pc     "loop": about to apply moves[i + 1];  "return": returning ret
Frame(fn, depth, quiescence_depth, alpha, beta, moves, i, value, best_move, pc, ret) ==
    [fn |-> fn, depth |-> depth, quiescence_depth |-> quiescence_depth, alpha |-> alpha,
     beta |-> beta, moves |-> moves, i |-> i, value |-> value, best_move |-> best_move,
     pc |-> pc, ret |-> ret]

Returning(f, ret) == [f EXCEPT !.pc = "return", !.ret = ret]

\* a quiescence loop that stops at every move, capturing or not
QuiescenceNextAnyMove(f) ==
    IF f.i >= Len(f.moves) THEN Returning(f, f.alpha) ELSE [f EXCEPT !.pc = "loop"]

\* quiescence_search: "continue" past the moves that capture nothing; the loop
\* falling off its end returns alpha
RECURSIVE QuiescenceNext(_)
QuiescenceNext(f) ==
    IF f.i >= Len(f.moves) THEN Returning(f, f.alpha)
    ELSE LET move == f.moves[f.i + 1]
         IN IF move.captured = None /\ ~move.is_en_passant
            THEN QuiescenceNext([f EXCEPT !.i = f.i + 1])
            ELSE [f EXCEPT !.pc = "loop"]

\* quiescence_search after "if depth <= 0", given what generate_legal_moves gave
QuiescenceMoves(f, gen) ==
    [frame |-> QuiescenceNext([f EXCEPT !.moves = order_moves(gen.moves)]),
     state |-> gen.state]

\* quiescence_search after "stand_pat = evaluate_position(state, model)"
QuiescenceStand(st, stand_pat, alpha, beta, depth, f) ==
    IF stand_pat >= beta THEN [frame |-> Returning(f, beta), state |-> st]
    ELSE IF depth <= 0
    THEN [frame |-> Returning([f EXCEPT !.alpha = max(alpha, stand_pat)], stand_pat),
          state |-> st]
    ELSE QuiescenceMoves([f EXCEPT !.alpha = max(alpha, stand_pat)], generate_legal_moves(st))

\* quiescence_search from its first line to its first make_move or its return:
\* the frame, and the state generate_legal_moves leaves behind
QuiescenceEntry(st, alpha, beta, depth) ==
    QuiescenceStand(st, evaluate_position(st), alpha, beta, depth,
                    Frame("quiescence_search", depth, 0, alpha, beta, <<>>, 0, 0, NoMove,
                          "loop", 0))

\* alpha_beta after "legal_moves = order_moves(generate_legal_moves(state))"
AlphaBetaMoves(f, gen, legal_moves) ==
    IF legal_moves = <<>>
    THEN [frame |-> Returning(f, IF is_in_check(gen.state, gen.state.side_to_move)
                                 THEN (-MATE_VALUE + (5 - f.depth)) * max_score
                                 ELSE 0),
          state |-> gen.state]
    ELSE [frame |-> [f EXCEPT !.moves = legal_moves], state |-> gen.state]

\* alpha_beta after the draw rules and the depth test
AlphaBetaLegal(f, gen) == AlphaBetaMoves(f, gen, order_moves(gen.moves))

\* an alpha_beta whose fifty-move test is off by one
AlphaBetaEntryAfterHundred(st, depth, alpha, beta, quiescence_depth) ==
    IF st.halfmove_clock > 100 \/ insufficient_material(st) \/ is_draw_by_repetition(st)
    THEN [frame |-> Returning(Frame("alpha_beta", depth, quiescence_depth, alpha, beta, <<>>,
                                    0, -inf, NoMove, "loop", 0), 0),
          state |-> st]
    ELSE IF depth = 0 THEN QuiescenceEntry(st, alpha, beta, quiescence_depth)
    ELSE AlphaBetaLegal(Frame("alpha_beta", depth, quiescence_depth, alpha, beta, <<>>, 0,
                              -inf, NoMove, "loop", 0),
                        generate_legal_moves(st))

\* alpha_beta from its first line to its first make_move or its return
AlphaBetaEntry(st, depth, alpha, beta, quiescence_depth) ==
    IF st.halfmove_clock >= 100 \/ insufficient_material(st) \/ is_draw_by_repetition(st)
    THEN [frame |-> Returning(Frame("alpha_beta", depth, quiescence_depth, alpha, beta, <<>>,
                                    0, -inf, NoMove, "loop", 0), 0),
          state |-> st]
    ELSE IF depth = 0 THEN QuiescenceEntry(st, alpha, beta, quiescence_depth)
    ELSE AlphaBetaLegal(Frame("alpha_beta", depth, quiescence_depth, alpha, beta, <<>>, 0,
                              -inf, NoMove, "loop", 0),
                        generate_legal_moves(st))

\* a callee that is handed its caller's window as it is, not negated and swapped
CalleeKeepsWindow(f, st) ==
    IF f.fn = "quiescence_search"
    THEN QuiescenceEntry(st, f.alpha, f.beta, f.depth - 1)
    ELSE AlphaBetaEntry(st, f.depth - 1, f.alpha, f.beta, f.quiescence_depth)

\* the callee a frame runs on the position after its move
Callee(f, st) ==
    IF f.fn = "quiescence_search"
    THEN QuiescenceEntry(st, -f.beta, -f.alpha, f.depth - 1)
    ELSE AlphaBetaEntry(st, f.depth - 1, -f.beta, -f.alpha, f.quiescence_depth)

\* a search_best_move whose alpha starts at 0: a move is best only with a positive score
AfterCallFromZero(f, returned) ==
    LET score == -returned
        passed == [f EXCEPT !.i = f.i + 1]
    IN IF f.fn = "search_best_move"
       THEN LET g == IF score > max(f.alpha, 0)
                     THEN [passed EXCEPT !.alpha = score, !.best_move = f.moves[f.i + 1]]
                     ELSE passed
            IN IF g.i >= Len(g.moves) THEN Returning(g, g.alpha) ELSE g
       ELSE IF f.fn = "alpha_beta"
       THEN LET g == [passed EXCEPT !.value = max(f.value, score), !.alpha = max(f.alpha, score)]
            IN IF g.alpha >= g.beta \/ g.i >= Len(g.moves) THEN Returning(g, g.value) ELSE g
       ELSE IF score >= f.beta THEN Returning(passed, f.beta)
            ELSE QuiescenceNext([passed EXCEPT !.alpha = max(f.alpha, score)])

\* the lines after undo_move in the three loops, given the callee's result
AfterCall(f, returned) ==
    LET score == -returned
        passed == [f EXCEPT !.i = f.i + 1]
    IN IF f.fn = "search_best_move"
       THEN LET g == IF score > f.alpha
                     THEN [passed EXCEPT !.alpha = score, !.best_move = f.moves[f.i + 1]]
                     ELSE passed
            IN IF g.i >= Len(g.moves) THEN Returning(g, g.alpha) ELSE g
       ELSE IF f.fn = "alpha_beta"
       THEN LET g == [passed EXCEPT !.value = max(f.value, score), !.alpha = max(f.alpha, score)]
            IN IF g.alpha >= g.beta \/ g.i >= Len(g.moves) THEN Returning(g, g.value) ELSE g
       ELSE IF score >= f.beta THEN Returning(passed, f.beta)
            ELSE QuiescenceNext([passed EXCEPT !.alpha = max(f.alpha, score)])

(* -------------------------------- game -------------------------------- *)

VARIABLES board, side_to_move, castling_rights, en_passant, halfmove_clock,
          fullmove_number, history, repetition,   \* the GameState object
          stack,    \* the activations of the search functions, outermost first
          result,   \* what search_best_move returned, NoResult while none is pending
          entry,    \* history variable: the GameState at the last call of
                    \* search_best_move (at construction before the first)
          snapshot  \* the GameState a client got from clone(), if it took one

position == <<board, side_to_move, castling_rights, en_passant, halfmove_clock,
              fullmove_number, history, repetition>>

vars == <<position, stack, result, entry, snapshot>>

NoResult == [returned |-> FALSE, best_move |-> NoMove, score |-> 0]
Returned(best_move, score) == [returned |-> TRUE, best_move |-> best_move, score |-> score]

\* no clone() has been called: no second GameState exists
NoSnapshot ==
    [taken |-> FALSE,
     shared |-> {},
     state |-> [board |-> <<>>, side_to_move |-> None, castling_rights |-> <<>>,
                en_passant |-> NoSquare, halfmove_clock |-> 0, fullmove_number |-> 0,
                history |-> <<>>, repetition |-> <<>>]]

\* the GameState object as one value
state == [board |-> board, side_to_move |-> side_to_move, castling_rights |-> castling_rights,
          en_passant |-> en_passant, halfmove_clock |-> halfmove_clock,
          fullmove_number |-> fullmove_number, history |-> history, repetition |-> repetition]

\* the GameState object is now st
Becomes(st) ==
    /\ board' = st.board
    /\ side_to_move' = st.side_to_move
    /\ castling_rights' = st.castling_rights
    /\ en_passant' = st.en_passant
    /\ halfmove_clock' = st.halfmove_clock
    /\ fullmove_number' = st.fullmove_number
    /\ history' = st.history
    /\ repetition' = st.repetition

\* a freshly constructed GameState, no search running
Constructed(st) ==
    /\ board = st.board
    /\ side_to_move = st.side_to_move
    /\ castling_rights = st.castling_rights
    /\ en_passant = st.en_passant
    /\ halfmove_clock = st.halfmove_clock
    /\ fullmove_number = st.fullmove_number
    /\ history = st.history
    /\ repetition = st.repetition
    /\ stack = <<>>
    /\ result = NoResult
    /\ entry = st
    /\ snapshot = NoSnapshot

\* Move.__str__
MoveText(move) ==
    index_to_square(move.from_square) \o index_to_square(move.to_square)
    \o (IF move.promotion # None THEN <<move.promotion>> ELSE <<>>)

Idle == stack = <<>>

\* str.lower
lowered(s) == [i \in 1..Len(s) |-> lower(s[i])]

\* find_move_from_input, the loop over legal_moves: the first move that matches
RECURSIVE FirstMatch(_, _, _, _, _)
FirstMatch(legal_moves, i, from_sq, to_sq, promo) ==
    IF i > Len(legal_moves) THEN NoMove
    ELSE IF /\ legal_moves[i].from_square = from_sq
            /\ legal_moves[i].to_square = to_sq
            /\ \/ promo = None
               \/ /\ legal_moves[i].promotion # None
                  /\ lower(legal_moves[i].promotion) = lower(promo)
    THEN legal_moves[i]
    ELSE FirstMatch(legal_moves, i + 1, from_sq, to_sq, promo)

\* find_move_from_input, for an input without surrounding blanks; NoMove for None
find_move_from_input(move_input, legal_moves) ==
    IF Len(move_input) \notin {4, 5} THEN NoMove
    ELSE IF \/ square_to_index(SubSeq(lowered(move_input), 1, 2)) = NoSquare
            \/ square_to_index(SubSeq(lowered(move_input), 3, 4)) = NoSquare
    THEN NoMove
    ELSE FirstMatch(legal_moves, 1,
                    square_to_index(SubSeq(lowered(move_input), 1, 2)),
                    square_to_index(SubSeq(lowered(move_input), 3, 4)),
                    IF Len(move_input) = 5 THEN lowered(move_input)[5] ELSE None)

\* A client lists the legal moves, picks one by its text and makes it, as
\* play does for the human side (main.py); an unrecognised text changes nothing.
MakeMove(inputs, max_ply) ==
    /\ Idle
    /\ Len(history) < max_ply
    /\ \E gen \in {generate_legal_moves(state)} :
         \E move_input \in inputs :
            \E chosen_move \in {find_move_from_input(move_input, gen.moves)} :
               \E made \in {IF chosen_move = NoMove THEN gen.state
                            ELSE MakeMoveCall(gen.state, chosen_move).state} :
                  Becomes(made)
    /\ result' = NoResult
    /\ UNCHANGED <<stack, entry, snapshot>>

\* GameState.undo_move called by the client
UndoMove ==
    /\ Idle
    /\ \E undone \in {undo_move(state)} : Becomes(undone)
    /\ result' = NoResult
    /\ UNCHANGED <<stack, entry, snapshot>>

\* the cloned GameState as one value: an object it shares with the original is
\* read where the original keeps it
snapshot_state ==
    [snapshot.state EXCEPT
        !.board = IF "board" \in snapshot.shared THEN board ELSE @,
        !.repetition = IF "repetition" \in snapshot.shared THEN repetition ELSE @,
        !.history = IF "history" \in snapshot.shared THEN history ELSE @]

\* the cloned GameState is now st: a shared object is written where the
\* original keeps it
SnapshotBecomes(st) ==
    /\ snapshot' = [snapshot EXCEPT !.state = st]
    /\ board' = IF "board" \in snapshot.shared THEN st.board ELSE board
    /\ repetition' = IF "repetition" \in snapshot.shared THEN st.repetition ELSE repetition
    /\ history' = IF "history" \in snapshot.shared THEN st.history ELSE history
    /\ UNCHANGED <<side_to_move, castling_rights, en_passant, halfmove_clock,
                   fullmove_number>>

\* the client calls clone() on its GameState and keeps the result
Clone ==
    /\ Idle
    /\ ~snapshot.taken
    /\ \E cloned \in {clone(state)} :
          snapshot' = [taken |-> TRUE, shared |-> cloned.shared, state |-> cloned.state]
    /\ UNCHANGED <<position, stack, result, entry>>

\* the client makes a move on the clone
CloneMakeMove(inputs, max_ply) ==
    /\ Idle
    /\ snapshot.taken
    /\ Len(snapshot.state.history) < max_ply
    /\ \E gen \in {generate_legal_moves(snapshot_state)} :
         \E move_input \in inputs :
            \E chosen_move \in {find_move_from_input(move_input, gen.moves)} :
               /\ chosen_move # NoMove
               /\ \E made \in {MakeMoveCall(gen.state, chosen_move).state} :
                     SnapshotBecomes(made)
    /\ UNCHANGED <<stack, result, entry>>

\* the client takes a move back on the clone
CloneUndoMove ==
    /\ Idle
    /\ snapshot.taken
    /\ \E undone \in {undo_move(snapshot_state)} : SnapshotBecomes(undone)
    /\ UNCHANGED <<stack, result, entry>>

\* search_best_move is called: up to its first make_move, or its early return
SearchBestMove(depth, quiescence_depth) ==
    /\ Idle
    /\ \E gen \in {generate_legal_moves(state)} :
         \E legal_moves \in {order_moves(gen.moves)} :
          /\ Becomes(gen.state)
          /\ entry' = state
          /\ IF legal_moves = <<>>
             THEN /\ result' = Returned(NoMove, 0)
                  /\ stack' = <<>>
             ELSE /\ result' = NoResult
                  /\ stack' = <<Frame("search_best_move", depth, quiescence_depth, -inf, inf,
                                      legal_moves, 0, 0, NoMove, "loop", 0)>>
    /\ UNCHANGED snapshot

\* the innermost loop applies its next move and calls alpha_beta or
\* quiescence_search on the position reached
Call ==
    /\ stack # <<>>
    /\ stack[Len(stack)].pc = "loop"
    /\ \E f \in {stack[Len(stack)]} :
         \E made \in {make_move(state, f.moves[f.i + 1])} :
          \E called \in {Callee(f, made)} :
             /\ Becomes(called.state)
             /\ stack' = Append(stack, called.frame)
    /\ UNCHANGED <<result, entry, snapshot>>

\* Call while the interpreter still allows another nested call: the recursion
\* limit ends a descent that the depth test does not end
CallWithin(max_recursion) ==
    /\ Len(stack) <= max_recursion
    /\ Call

\* loops that leave on a cut-off before they undo the move
ReturnBreaksBeforeUndo ==
    /\ Len(stack) >= 2
    /\ stack[Len(stack)].pc = "return"
    /\ \E g \in {AfterCall(stack[Len(stack) - 1], stack[Len(stack)].ret)} :
         /\ \E undone \in {IF g.pc = "return" /\ g.i < Len(g.moves) THEN state
                           ELSE undo_move(state)} : Becomes(undone)
         /\ stack' = [SubSeq(stack, 1, Len(stack) - 1) EXCEPT ![Len(stack) - 1] = g]
    /\ UNCHANGED <<result, entry, snapshot>>

\* the innermost call returns: its caller undoes the move and goes on
Return ==
    /\ Len(stack) >= 2
    /\ stack[Len(stack)].pc = "return"
    /\ \E undone \in {undo_move(state)} : Becomes(undone)
    /\ stack' = [SubSeq(stack, 1, Len(stack) - 1) EXCEPT
                    ![Len(stack) - 1] = AfterCall(stack[Len(stack) - 1], stack[Len(stack)].ret)]
    /\ UNCHANGED <<result, entry, snapshot>>

\* search_best_move returns (best_move, alpha)
Finish ==
    /\ Len(stack) = 1
    /\ stack[1].pc = "return"
    /\ result' = Returned(stack[1].best_move, stack[1].alpha)
    /\ stack' = <<>>
    /\ UNCHANGED <<position, entry, snapshot>>

(* ------------------------------ the inputs ------------------------------ *)

\* FEN strings the GameState is constructed from
START_POSITION ==
    <<"r","n","b","q","k","b","n","r","/","p","p","p","p","p","p","p","p","/","8","/","8",
      "/","8","/","8","/","P","P","P","P","P","P","P","P","/","R","N","B","Q","K","B","N",
      "R"," ","w"," ","K","Q","k","q"," ","-"," ","0"," ","1">>

CASTLING_POSITION ==
    <<"r","3","k","2","r","/","8","/","8","/","8","/","8","/","8","/","8","/","R","3","K",
      "2","R"," ","w"," ","K","Q","k","q"," ","-"," ","0"," ","1">>

PROMOTION_POSITION ==
    <<"1","n","2","k","3","/","P","7","/","8","/","8","/","8","/","8","/","7","p","/","4",
      "K","1","N","1"," ","w"," ","-"," ","-"," ","1","2"," ","4","0">>

PINNED_EN_PASSANT_POSITION ==
    <<"8","/","3","p","4","/","8","/","K","3","P","2","r","/","8","/","8","/","8","/","4",
      "k","3"," ","b"," ","-"," ","-"," ","0"," ","3","0">>

ATTACKED_PATH_POSITION ==
    <<"1","r","2","k","r","2","/","8","/","8","/","8","/","8","/","8","/","8","/","R","3",
      "K","2","R"," ","w"," ","K","Q"," ","-"," ","3"," ","9">>

BLOCKED_PATH_POSITION ==
    <<"3","r","k","3","/","8","/","8","/","8","/","8","/","8","/","8","/","R","N","2","K",
      "2","R"," ","w"," ","K","Q"," ","-"," ","0"," ","1">>

TWO_KNIGHTS_POSITION ==
    <<"4","k","3","/","8","/","8","/","8","/","8","/","8","/","8","/","1","N","2","K","1",
      "N","1"," ","w"," ","-"," ","-"," ","0"," ","1">>

SAME_BISHOPS_POSITION ==
    <<"8","/","8","/","8","/","3","k","4","/","2","b","5","/","8","/","8","/","4","K","B",
      "2"," ","w"," ","-"," ","-"," ","0"," ","1">>

FULL_ARMY_POSITION ==
    <<"7","k","/","P","7","/","8","/","8","/","8","/","8","/","1","P","P","P","P","P","P",
      "P","/","R","N","B","Q","K","B","N","R"," ","w"," ","K","Q"," ","-"," ","0"," ","1">>

REPETITION_POSITION ==
    <<"8","/","k","7","/","P","7","/","8","/","8","/","8","/","8","/","7","K"," ","w"," ",
      "-"," ","-"," ","0"," ","1">>

MATE_IN_ONE_POSITION ==
    <<"6","k","1","/","8","/","6","K","1","/","8","/","8","/","8","/","8","/","R","7"," ",
      "w"," ","-"," ","-"," ","0"," ","1">>

CHECKMATED_POSITION ==
    <<"R","5","k","1","/","8","/","6","K","1","/","8","/","8","/","8","/","8","/","8"," ",
      "b"," ","-"," ","-"," ","0"," ","1">>

STALEMATED_POSITION ==
    <<"7","k","/","5","Q","2","/","6","K","1","/","8","/","8","/","8","/","8","/","8"," ",
      "b"," ","-"," ","-"," ","0"," ","1">>

EXCHANGE_POSITION ==
    <<"4","k","3","/","8","/","3","p","4","/","4","n","3","/","3","P","4","/","8","/","8",
      "/","4","K","3"," ","w"," ","-"," ","-"," ","0"," ","1">>

FIFTY_MOVE_POSITION ==
    <<"4","k","3","/","8","/","3","p","4","/","4","n","3","/","3","P","4","/","8","/","8",
      "/","4","K","3"," ","w"," ","-"," ","-"," ","9","9"," ","8","0">>

EN_PASSANT_HORIZON_POSITION ==
    <<"4","k","3","/","8","/","8","/","8","/","3","p","4","/","8","/","4","P","3","/","4",
      "K","3"," ","w"," ","-"," ","-"," ","0"," ","1">>

GameFens == {START_POSITION, CASTLING_POSITION, PROMOTION_POSITION, PINNED_EN_PASSANT_POSITION,
             ATTACKED_PATH_POSITION, BLOCKED_PATH_POSITION, TWO_KNIGHTS_POSITION,
             SAME_BISHOPS_POSITION, FULL_ARMY_POSITION, EN_PASSANT_HORIZON_POSITION}

SearchFens == {REPETITION_POSITION, MATE_IN_ONE_POSITION, CHECKMATED_POSITION,
               STALEMATED_POSITION, EXCHANGE_POSITION, FIFTY_MOVE_POSITION,
               EN_PASSANT_HORIZON_POSITION}

\* the move texts the client plays in a game
GameInputs ==
    {<<"e","2","e","4">>,
     <<"a","7","a","6">>,
     <<"e","4","e","5">>,
     <<"d","7","d","5">>,
     <<"e","5","d","6">>,
     <<"d","4","e","3">>,
     <<"e","1","g","1">>,
     <<"e","1","c","1">>,
     <<"e","8","g","8">>,
     <<"e","8","c","8">>,
     <<"h","1","h","2">>,
     <<"a","1","a","8">>,
     <<"h","8","h","1">>,
     <<"e","8","e","7">>,
     <<"a","7","a","8","q">>,
     <<"A","7","B","8","N">>,
     <<"h","2","h","1","r">>,
     <<"h","2","g","1","b">>,
     <<"a","5","b","4">>,
     <<"g","1","f","3">>,
     <<"g","8","f","6">>,
     <<"e","7","e","5">>,
     <<"f","1","c","4">>,
     <<"e","1","e","2">>,
     <<"a","8","a","1">>,
     <<"e","2","e","9">>,
     <<"O","-","O">>}

\* the positions and the move texts of a client that works on a clone
CloneFens == {START_POSITION, CASTLING_POSITION, PINNED_EN_PASSANT_POSITION}

CloneInputs ==
    {<<"e","2","e","4">>,
     <<"d","7","d","5">>,
     <<"e","4","d","5">>,
     <<"e","1","g","1">>,
     <<"a","1","a","8">>,
     <<"e","8","c","8">>,
     <<"e","8","e","7">>,
     <<"a","7","a","6">>,
     <<"g","1","f","3">>,
     <<"h","5","e","5">>}

\* the move texts the client plays before it calls the search
SearchInputs ==
    {<<"h","1","g","1">>,
     <<"a","7","a","8">>,
     <<"g","1","h","1">>,
     <<"a","8","a","7">>,
     <<"d","4","e","5">>,
     <<"a","1","a","8">>}

(* ------------------------------ the bounds ------------------------------ *)

\* moves the client applies on top of the constructed position
MaxPly == 4
MaxSearchPly == 8
\* the depth and quiescence_depth the client passes to search_best_move
MaxDepth == 2
MaxQuiescenceDepth == 1
\* the moves made on the original and on the clone
MaxClonePly == 2
\* the calls nested below search_best_move before the interpreter gives up
MaxRecursion == 4

(* --------------------------- the specifications --------------------------- *)

\* a client that plays games and takes moves back
Init == \E fen \in GameFens : \E made \in {from_fen(fen)} : ~made.error /\ Constructed(made.state)

Next ==
    \/ MakeMove(GameInputs, MaxPly)
    \/ UndoMove

Spec == Init /\ [][Next]_vars

\* a client that plays a few moves and asks the engine for a move
SearchInit ==
    \E fen \in SearchFens : \E made \in {from_fen(fen)} : ~made.error /\ Constructed(made.state)

SearchNext ==
    \/ MakeMove(SearchInputs, MaxSearchPly)
    \/ \E depth \in 1..MaxDepth, quiescence_depth \in 0..MaxQuiescenceDepth :
          SearchBestMove(depth, quiescence_depth)
    \/ Call
    \/ Return
    \/ Finish

SearchSpec == SearchInit /\ [][SearchNext]_vars

\* a client that asks the engine for a move at any depth from 0 on
AnyDepthFens == {MATE_IN_ONE_POSITION, EXCHANGE_POSITION}

AnyDepthInit ==
    \E fen \in AnyDepthFens : \E made \in {from_fen(fen)} : ~made.error /\ Constructed(made.state)

AnyDepthNext ==
    \/ \E depth \in 0..MaxDepth, quiescence_depth \in 0..MaxQuiescenceDepth :
          SearchBestMove(depth, quiescence_depth)
    \/ CallWithin(MaxRecursion)
    \/ Return
    \/ Finish

AnyDepthSpec == AnyDepthInit /\ [][AnyDepthNext]_vars

\* a client that clones its GameState and goes on playing on both
CloneInit ==
    \E fen \in CloneFens : \E made \in {from_fen(fen)} : ~made.error /\ Constructed(made.state)

CloneNext ==
    \/ MakeMove(CloneInputs, MaxClonePly)
    \/ UndoMove
    \/ Clone
    \/ CloneMakeMove(CloneInputs, MaxClonePly)
    \/ CloneUndoMove

CloneSpec == CloneInit /\ [][CloneNext]_vars

(* ------------------------------ properties ------------------------------ *)

\* the moves of a list, as a set
Range(moves) == {moves[i] : i \in 1..Len(moves)}

\* C1: in every position reached by legal moves from the start position or
\* from a FEN, each move of generate_legal_moves, applied by make_move and
\* taken back by undo_move, gives back the GameState it was applied to: board,
\* side to move, castling rights, en passant target, both clocks, every key
\* and count of the repetition table, and the history stack.
MakeUndoRestoresState ==
    \A gen \in {generate_legal_moves(state)} :
       \A i \in 1..Len(gen.moves) : undo_move(make_move(state, gen.moves[i])) = state

\* moves have been played, and an en passant capture is legal, changes the
\* position and is taken back exactly
MakeUndoRestoresStateWitness ==
    /\ history # <<>>
    /\ \E move \in Range(generate_legal_moves(state).moves) :
          /\ move.is_en_passant
          /\ make_move(state, move).board # board
          /\ undo_move(make_move(state, move)) = state

\* C2: after any move of generate_legal_moves is made, the king of the side
\* that moved is not attacked; so in no state reached by such moves is the
\* side that is not to move in check.
LegalMovesKeepKingSafe ==
    /\ history # <<>> => ~is_in_check(state, IF side_to_move = "w" THEN "b" ELSE "w")
    /\ \A gen \in {generate_legal_moves(state)} :
          \A i \in 1..Len(gen.moves) :
             ~is_in_check(make_move(state, gen.moves[i]), side_to_move)

\* moves have been played, the side to move is in check, and some candidates
\* are kept while others are rejected
LegalMovesKeepKingSafeWitness ==
    /\ history # <<>>
    /\ is_in_check(state, side_to_move)
    /\ generate_legal_moves(state).moves # <<>>
    /\ Len(generate_legal_moves(state).moves) < Len(generate_pseudo_legal_moves(state))

\* st after n calls of undo_move
RECURSIVE Undone(_, _)
Undone(st, n) == IF n = 0 THEN st ELSE Undone(undo_move(st), n - 1)

\* C3: the search applies and undoes moves on the one GameState last in,
\* first out. While it runs, the history holds exactly one move per pending
\* call below search_best_move, the move its caller is at, and undoing those
\* gives the GameState at entry; when search_best_move has returned, the
\* GameState (board, side, rights, en passant target, clocks, repetition
\* table, history) is the one at entry.
SearchRestoresState ==
    /\ result.returned => state = entry
    /\ stack # <<>> =>
          /\ Len(history) = Len(entry.history) + Len(stack) - 1
          /\ \A k \in 1..(Len(stack) - 1) :
                /\ stack[k].pc = "loop"
                /\ history[Len(entry.history) + k].move = stack[k].moves[stack[k].i + 1]
          /\ Undone(state, Len(stack) - 1) = entry

\* an alpha_beta call has left its loop on a beta cut-off, moves still untried,
\* and the position is the one it was called on
SearchRestoresStateWitness ==
    /\ Len(stack) >= 2
    /\ LET f == stack[Len(stack)]
       IN /\ f.fn = "alpha_beta"
          /\ f.pc = "return"
          /\ f.i > 0
          /\ f.i < Len(f.moves)
          /\ f.alpha >= f.beta
    /\ Len(history) = Len(entry.history) + Len(stack) - 1

\* C4: generate_legal_moves leaves the GameState as it found it, and the
\* make_move/undo_move round trip is exact for every pseudo-legal candidate,
\* those rejected for leaving the mover's king in check included.
GenerateLegalMovesLeavesState ==
    /\ generate_legal_moves(state).state = state
    /\ \A pseudo_moves \in {generate_pseudo_legal_moves(state)} :
          \A i \in 1..Len(pseudo_moves) :
             undo_move(make_move(state, pseudo_moves[i])) = state

\* a candidate that leaves the mover's king in check is rejected, and its
\* round trip is exact
GenerateLegalMovesLeavesStateWitness ==
    \E move \in Range(generate_pseudo_legal_moves(state)) :
       /\ is_in_check(make_move(state, move), side_to_move)
       /\ move \notin Range(generate_legal_moves(state).moves)
       /\ undo_move(make_move(state, move)) = state

\* C5: in the standard starting position generate_legal_moves returns
\* exactly 20 moves for white, 16 by pawns and 4 by knights, no move twice.
StartingPositionHasTwentyMoves ==
    state = starting_state =>
       \A gen \in {generate_legal_moves(state)} :
          /\ side_to_move = "w"
          /\ Len(gen.moves) = 20
          /\ Cardinality(Range(gen.moves)) = 20
          /\ Cardinality({i \in 1..Len(gen.moves) : board[gen.moves[i].from_square] = "P"}) = 16
          /\ Cardinality({i \in 1..Len(gen.moves) : board[gen.moves[i].from_square] = "N"}) = 4

\* the starting position, with its 20 moves
StartingPositionHasTwentyMovesWitness ==
    /\ state = starting_state
    /\ Len(generate_legal_moves(state).moves) = 20

\* the four castling moves: colour, right, king, its home square, the squares
\* strictly between king and rook, the squares the king crosses or lands on,
\* and the square it lands on (e1 = 60, e8 = 4; a file further right is one more)
Wings ==
    {[color |-> "w", right |-> "K", king |-> "K", home |-> 60, between |-> {61, 62},
      crossed |-> {61, 62}, dest |-> 62],
     [color |-> "w", right |-> "Q", king |-> "K", home |-> 60, between |-> {57, 58, 59},
      crossed |-> {59, 58}, dest |-> 58],
     [color |-> "b", right |-> "k", king |-> "k", home |-> 4, between |-> {5, 6},
      crossed |-> {5, 6}, dest |-> 6],
     [color |-> "b", right |-> "q", king |-> "k", home |-> 4, between |-> {1, 2, 3},
      crossed |-> {3, 2}, dest |-> 2]}

\* what the rules ask of a castling move
MayCastle(wing) ==
    /\ side_to_move = wing.color
    /\ board[wing.home] = wing.king
    /\ \E i \in 1..Len(castling_rights) : castling_rights[i] = wing.right
    /\ \A sq \in wing.between : board[sq] = "."
    /\ \A sq \in {wing.home} \cup wing.crossed :
          ~is_square_attacked(board, sq, IF wing.color = "w" THEN "b" ELSE "w")

\* C6: a castling move of a colour and wing is generated, and is in the legal
\* set, if and only if the king of the side to move is on its home square, the
\* right is held, the squares between king and rook are empty and the king's
\* square and the squares it crosses or lands on are not attacked; no other
\* castling move is generated; and in r3k2r/8/8/8/8/8/8/R3K2R w KQkq - 0 1
\* both white castling moves are legal.
CastlingGeneratedIffAllowed ==
    \A pseudo_moves \in {generate_pseudo_legal_moves(state)} :
       \A gen \in {generate_legal_moves(state)} :
          /\ \A wing \in Wings :
                /\ Move(wing.home, wing.dest, None, TRUE, FALSE, None) \in Range(pseudo_moves)
                      <=> MayCastle(wing)
                /\ Move(wing.home, wing.dest, None, TRUE, FALSE, None) \in Range(gen.moves)
                      <=> MayCastle(wing)
          /\ \A move \in Range(pseudo_moves) :
                move.is_castle => \E wing \in Wings :
                   /\ wing.color = side_to_move
                   /\ move = Move(wing.home, wing.dest, None, TRUE, FALSE, None)
          /\ to_fen(state) = CASTLING_POSITION =>
                {Move(60, 62, None, TRUE, FALSE, None), Move(60, 58, None, TRUE, FALSE, None)}
                   \subseteq Range(gen.moves)

\* both rights held and both sides clear, f1 and b1 attacked: castling to c1
\* is legal, castling to g1 is not generated
CastlingGeneratedIffAllowedWitness ==
    /\ side_to_move = "w"
    /\ castling_rights = <<"K", "Q">>
    /\ \A sq \in {57, 58, 59, 61, 62} : board[sq] = "."
    /\ is_square_attacked(board, 61, "b")
    /\ is_square_attacked(board, 57, "b")
    /\ Move(60, 58, None, TRUE, FALSE, None) \in Range(generate_legal_moves(state).moves)
    /\ Move(60, 62, None, TRUE, FALSE, None) \notin Range(generate_pseudo_legal_moves(state))

\* the last move made was a double pawn push
AfterDoublePush ==
    /\ history # <<>>
    /\ history[Len(history)].moved_piece \in {"P", "p"}
    /\ history[Len(history)].move.to_square - history[Len(history)].move.from_square
          \in {16, -16}

\* the pawns of the side to move that stand next to a pawn on square sq
PawnsBeside(sq) ==
    {idx \in 0..63 : /\ idx \div 8 = sq \div 8
                     /\ idx - sq \in {1, -1}
                     /\ board[idx] = (IF side_to_move = "w" THEN "P" ELSE "p")}

\* the moves played so far, as the client typed them
Played == [k \in 1..Len(history) |-> MoveText(history[k].move)]

\* C7: right after a double pawn push that lands beside a pawn of the side to
\* move, that pawn's en passant capture onto the skipped square is generated,
\* and is legal unless it leaves the mover's king in check; an en passant
\* move is generated only onto the en passant target, which after a move is
\* set only by a double push made in the ply before, by a pawn beside the
\* pushed one; after e2e4, a7a6, e4e5, d7d5 from the start position the en
\* passant move from e5 to d6 is legal.
EnPassantFollowsDoublePush ==
    \A pseudo_moves \in {generate_pseudo_legal_moves(state)} :
       \A gen \in {generate_legal_moves(state)} :
          /\ AfterDoublePush =>
                \A idx \in PawnsBeside(history[Len(history)].move.to_square) :
                   \A capture \in {Move(idx, (history[Len(history)].move.to_square
                                              + history[Len(history)].move.from_square) \div 2,
                                        None, FALSE, TRUE, None)} :
                      /\ capture \in Range(pseudo_moves)
                      /\ capture \in Range(gen.moves)
                            <=> ~is_in_check(make_move(state, capture), side_to_move)
          /\ \A move \in Range(pseudo_moves) :
                move.is_en_passant =>
                   /\ en_passant # NoSquare
                   /\ move.to_square = en_passant
                   /\ history # <<>> =>
                         /\ AfterDoublePush
                         /\ en_passant = (history[Len(history)].move.to_square
                                          + history[Len(history)].move.from_square) \div 2
                         /\ move.from_square
                               \in PawnsBeside(history[Len(history)].move.to_square)
          /\ (history # <<>> /\ ~AfterDoublePush) => en_passant = NoSquare
          /\ (/\ Undone(state, Len(history)) = starting_state
              /\ Played = << <<"e","2","e","4">>, <<"a","7","a","6">>, <<"e","4","e","5">>,
                             <<"d","7","d","5">> >>) =>
                Move(28, 19, None, FALSE, TRUE, None) \in Range(gen.moves)

\* after e2e4, a7a6, e4e5, d7d5 the capture from e5 to d6 is legal
EnPassantFollowsDoublePushWitness ==
    /\ Len(history) = 4
    /\ Undone(state, 4) = starting_state
    /\ MoveText(history[4].move) = <<"d","7","d","5">>
    /\ AfterDoublePush
    /\ Move(28, 19, None, FALSE, TRUE, None) \in Range(generate_legal_moves(state).moves)

\* the starting position's FEN: START_FEN and the five fields after it
StartingFen == START_FEN \o <<" ", "w", " ", "K", "Q", "k", "q", " ", "-", " ", "0", " ", "1">>

\* C8: the FEN of a GameState parses, and parses to the same board cells,
\* side to move, castling rights, en passant square, halfmove clock and
\* fullmove number, whichever square the en passant target is and whatever
\* the clocks count; and the starting position's FEN, parsed and written
\* again, is the same string, for the board alone and for the whole state.
FenRoundTrips ==
    /\ \A made \in {from_fen(to_fen(state))} :
          /\ ~made.error
          /\ made.state.board = board
          /\ made.state.side_to_move = side_to_move
          /\ made.state.castling_rights = castling_rights
          /\ made.state.en_passant = en_passant
          /\ made.state.halfmove_clock = halfmove_clock
          /\ made.state.fullmove_number = fullmove_number
    /\ \A sq \in 0..63 : square_to_index(index_to_square(sq)) = sq
    /\ \A n \in 0..120 : int(str(n)) = n
    /\ state = starting_state =>
          /\ ~from_fen(StartingFen).error
          /\ to_fen(from_fen(StartingFen).state) = StartingFen
          /\ ~Board_from_fen(START_FEN).error
          /\ Board_to_fen(Board_from_fen(START_FEN).squares) = START_FEN

\* a position with no castling right left, an en passant target, clocks of
\* one and of two digits, and rows that end in empty squares
FenRoundTripsWitness ==
    /\ castling_rights = <<>>
    /\ en_passant # NoSquare
    /\ fullmove_number >= 10
    /\ board[7] = "."
    /\ from_fen(to_fen(state)).state.en_passant = en_passant
    /\ from_fen(to_fen(state)).state.board = board

\* C9: search_best_move returns (None, 0.0) exactly when the position it was
\* called on has no legal move; when it has one, the move returned is one of
\* generate_legal_moves of that position and the score is finite.
SearchReturnsLegalMove ==
    result.returned =>
       \A gen \in {generate_legal_moves(entry)} :
          /\ result.best_move = NoMove <=> gen.moves = <<>>
          /\ gen.moves = <<>> => result.score = 0
          /\ gen.moves # <<>> =>
                /\ result.best_move \in Range(gen.moves)
                /\ result.score > -inf
                /\ result.score < inf

\* the search has returned a legal move of a position that has several
SearchReturnsLegalMoveWitness ==
    /\ result.returned
    /\ result.best_move # NoMove
    /\ result.best_move \in Range(generate_legal_moves(entry).moves)
    /\ Len(generate_legal_moves(entry).moves) > 1
    /\ state = entry

\* the repetition keys of the positions along the applied move path, the
\* constructed position first
RECURSIVE PathKeys(_)
PathKeys(st) ==
    IF st.history = <<>> THEN <<repetition_key(st)>>
    ELSE Append(PathKeys(undo_move(st)), repetition_key(st))

\* how often the current position's key was reached along the path
Occurrences ==
    Cardinality({k \in 1..Len(PathKeys(state)) : PathKeys(state)[k] = repetition_key(state)})

\* C10: when the repetition key of the current position was reached three or
\* more times along the applied move path, is_draw_by_repetition is true, and
\* an alpha_beta call on that position returns 0 without trying a move.
ThreefoldRepetitionIsDraw ==
    Occurrences >= 3 =>
       /\ is_draw_by_repetition(state)
       /\ (Len(stack) >= 2 /\ stack[Len(stack) - 1].fn # "quiescence_search") =>
             /\ stack[Len(stack)].fn = "alpha_beta"
             /\ stack[Len(stack)].pc = "return"
             /\ stack[Len(stack)].ret = 0
             /\ stack[Len(stack)].moves = <<>>

\* alpha_beta was called on a position reached for the third time, with one
\* side a pawn up, and has returned 0
ThreefoldRepetitionIsDrawWitness ==
    /\ Occurrences >= 3
    /\ Len(stack) >= 2
    /\ stack[Len(stack) - 1].fn # "quiescence_search"
    /\ stack[Len(stack)].ret = 0
    /\ stack[Len(stack)].pc = "return"
    /\ simple_material_eval(state) # 0
    /\ halfmove_clock < 100
    /\ ~insufficient_material(state)

\* C11: a position below the root of the search whose halfmove clock is 100
\* or more is an alpha_beta call that has returned 0, whatever its remaining
\* depth and the material, with no move applied below it.
FiftyMoveRuleScoresZero ==
    \A k \in 2..Len(stack) :
       Undone(state, Len(stack) - k).halfmove_clock >= 100 =>
          /\ k = Len(stack)
          /\ stack[k].fn = "alpha_beta"
          /\ stack[k].pc = "return"
          /\ stack[k].ret = 0
          /\ stack[k].moves = <<>>
          /\ stack[k].i = 0

\* alpha_beta, with depth left, has returned 0 on a position whose clock is at
\* 100 and where one side is a knight up
FiftyMoveRuleScoresZeroWitness ==
    /\ Len(stack) >= 2
    /\ halfmove_clock >= 100
    /\ stack[Len(stack)].depth >= 1
    /\ stack[Len(stack)].pc = "return"
    /\ stack[Len(stack)].ret = 0
    /\ simple_material_eval(state) # 0
    /\ ~insufficient_material(state)
    /\ ~is_draw_by_repetition(state)

\* the castling rights held: the letters of a rights string
Held(rights) == Range(rights)

\* the rights a move gives up, from the piece it moves and the square it
\* lands on in the position it is played in
GivenUp(st, move) ==
    {right \in {"K", "Q", "k", "q"} :
        \E colour \in {IF isupper(right) THEN "w" ELSE "b"} :
        \E king \in {IF colour = "w" THEN "K" ELSE "k"} :
        \E rook \in {IF colour = "w" THEN "R" ELSE "r"} :
        \E corner \in {CASE right = "K" -> 63 [] right = "Q" -> 56
                         [] right = "k" -> 7  [] right = "q" -> 0} :
           \/ st.board[move.from_square] = king
           \/ st.board[move.from_square] = rook /\ move.from_square = corner
           \/ st.board[move.to_square] = rook /\ move.to_square = corner}

\* C12: every legal move of a reached position leaves, in their order, exactly
\* the castling rights it does not give up (both of a colour whose king moves,
\* castling included, one for a rook leaving its corner, one for a rook
\* captured on its corner), and along the moves played the rights held after
\* each move are among those held before it.
CastlingRightsOnlyShrink ==
    /\ \A gen \in {generate_legal_moves(state)} :
          \A i \in 1..Len(gen.moves) :
             \E made \in {make_move(state, gen.moves[i])} :
                /\ made.castling_rights =
                      SelectSeq(castling_rights,
                                LAMBDA ch : ch \notin GivenUp(state, gen.moves[i]))
                /\ Held(made.castling_rights) \subseteq Held(castling_rights)
    /\ \A k \in 1..Len(history) :
          Held(IF k = Len(history) THEN castling_rights
               ELSE history[k + 1].prev_castling)
             \subseteq Held(history[k].prev_castling)

\* a king has castled and lost both of its rights, a rook has then taken a
\* rook on its corner, and in the position reached a right is still held
CastlingRightsOnlyShrinkWitness ==
    /\ Len(history) >= 2
    /\ castling_rights # <<>>
    /\ \E j \in 1..Len(history) :
          /\ history[j].move.is_castle
          /\ Held(history[j].prev_castling) \ Held(history[j + 1].prev_castling)
                \in {{"K", "Q"}, {"k", "q"}}
          /\ \E k \in (j + 1)..Len(history) :
                /\ history[k].moved_piece \in {"R", "r"}
                /\ history[k].captured \in {"R", "r"}
                /\ history[k].move.to_square \in {0, 7, 56, 63}

\* the en passant target after the k-th move played
EnPassantAt(k) == IF k = Len(history) THEN en_passant ELSE history[k + 1].prev_en_passant

\* the move takes a pawn two ranks up or down its file
AdvancesTwoRanks(st, move) ==
    /\ st.board[move.from_square] \in {"P", "p"}
    /\ move.from_square % 8 = move.to_square % 8
    /\ abs((move.from_square \div 8) - (move.to_square \div 8)) = 2

\* the square a two-rank advance passes over
SquareBetween(move) ==
    8 * (((move.from_square \div 8) + (move.to_square \div 8)) \div 2)
       + (move.from_square % 8)

\* C13: after every legal move of a reached position the en passant target is
\* the square between from and to if the move took a pawn two ranks forward,
\* and empty after any other move; along the moves played a target set by
\* one move is gone or replaced by another after the next.
EnPassantTargetLastsOnePly ==
    /\ \A gen \in {generate_legal_moves(state)} :
          \A i \in 1..Len(gen.moves) :
             make_move(state, gen.moves[i]).en_passant =
                IF AdvancesTwoRanks(state, gen.moves[i])
                THEN SquareBetween(gen.moves[i]) ELSE NoSquare
    /\ \A k \in 1..Len(history) :
          /\ EnPassantAt(k) # NoSquare =>
                /\ history[k].moved_piece \in {"P", "p"}
                /\ abs(history[k].move.to_square - history[k].move.from_square) = 16
                /\ EnPassantAt(k) = SquareBetween(history[k].move)
          /\ history[k].prev_en_passant # NoSquare =>
                EnPassantAt(k) # history[k].prev_en_passant

\* a pawn advanced two ranks and set the target, the reply was another move,
\* and the target is empty again
EnPassantTargetLastsOnePlyWitness ==
    /\ Len(history) >= 2
    /\ history[Len(history) - 1].moved_piece \in {"P", "p"}
    /\ history[Len(history)].prev_en_passant
          = SquareBetween(history[Len(history) - 1].move)
    /\ history[Len(history)].prev_en_passant # NoSquare
    /\ en_passant = NoSquare

\* the move takes a piece: it lands on an occupied square or takes en passant
Captures(st, move) == st.board[move.to_square] # "." \/ move.is_en_passant

\* C14: every legal move of a reached position gives the move to the other
\* side, sets the halfmove clock to 0 if it moves a pawn or captures (en
\* passant included) and to one more than before otherwise, and adds 1 to the
\* fullmove number if black made it and nothing if white did.
MoveUpdatesSideAndClocks ==
    \A gen \in {generate_legal_moves(state)} :
       \A i \in 1..Len(gen.moves) :
          \E made \in {make_move(state, gen.moves[i])} :
             /\ made.side_to_move # side_to_move
             /\ made.side_to_move \in {"w", "b"}
             /\ made.halfmove_clock =
                   IF \/ board[gen.moves[i].from_square] \in {"P", "p"}
                      \/ Captures(state, gen.moves[i])
                   THEN 0 ELSE halfmove_clock + 1
             /\ made.fullmove_number =
                   IF side_to_move = "b" THEN fullmove_number + 1 ELSE fullmove_number

\* white took with a piece and the clock went to 0 with the fullmove number
\* kept; black answered with a quiet piece move and the clock is 1, the
\* fullmove number one more, and white is to move
MoveUpdatesSideAndClocksWitness ==
    /\ Len(history) >= 2
    /\ history[Len(history) - 1].prev_side = "w"
    /\ history[Len(history) - 1].captured # None
    /\ history[Len(history) - 1].moved_piece \notin {"P", "p"}
    /\ history[Len(history) - 1].prev_halfmove > 0
    /\ history[Len(history)].prev_side = "b"
    /\ history[Len(history)].prev_halfmove = 0
    /\ history[Len(history)].prev_fullmove = history[Len(history) - 1].prev_fullmove
    /\ history[Len(history)].captured = None
    /\ history[Len(history)].moved_piece \notin {"P", "p"}
    /\ halfmove_clock = 1
    /\ fullmove_number = history[Len(history)].prev_fullmove + 1
    /\ side_to_move = "w"

\* C15: undo_move on a position with an empty history stack returns the same
\* position: board, side to move, castling rights, en passant target, both
\* clocks, the repetition table and the (empty) history are as they were.
UndoOnEmptyHistoryChangesNothing ==
    history = <<>> =>
       \E undone \in {undo_move(state)} :
          /\ undone.board = board
          /\ undone.side_to_move = side_to_move
          /\ undone.castling_rights = castling_rights
          /\ undone.en_passant = en_passant
          /\ undone.halfmove_clock = halfmove_clock
          /\ undone.fullmove_number = fullmove_number
          /\ undone.repetition = repetition
          /\ undone.history = <<>>

\* nothing has been played, the position is counted once in the repetition
\* table, rights are held and the halfmove clock is running
UndoOnEmptyHistoryChangesNothingWitness ==
    /\ history = <<>>
    /\ Get(repetition, repetition_key(state), 0) = 1
    /\ castling_rights # <<>>
    /\ halfmove_clock > 0
    /\ fullmove_number > 1

\* the moves a caller can build from an empty square of the position
MovesFromEmptySquares ==
    {Move(from_square, to_square, None, FALSE, is_en_passant, None) :
        from_square \in {sq \in 0..63 : board[sq] = "."},
        to_square \in 0..63,
        is_en_passant \in BOOLEAN}

\* C16: in every reached position make_move with a move whose from-square is
\* empty raises ValueError and leaves the position as it was: the board, the
\* side to move, castling rights, en passant target, clocks, the repetition
\* counts and the history.
MakeMoveFromEmptySquareFails ==
    \A move \in MovesFromEmptySquares :
       \E call \in {MakeMoveCall(state, move)} :
          /\ call.raised = "ValueError"
          /\ call.state.board = board
          /\ call.state.side_to_move = side_to_move
          /\ call.state.castling_rights = castling_rights
          /\ call.state.en_passant = en_passant
          /\ call.state.halfmove_clock = halfmove_clock
          /\ call.state.fullmove_number = fullmove_number
          /\ call.state.repetition = repetition
          /\ call.state.history = history

\* moves have been played, and a move from an empty square onto an occupied
\* one is refused while a move from an occupied square is made
MakeMoveFromEmptySquareFailsWitness ==
    /\ Len(history) >= 1
    /\ \E from_square \in 0..63 : \E to_square \in 0..63 :
          /\ board[from_square] = "."
          /\ board[to_square] # "."
          /\ MakeMoveCall(state, Move(from_square, to_square, None, FALSE, FALSE, None)).raised
                = "ValueError"
    /\ \E gen \in {generate_legal_moves(state)} :
          /\ gen.moves # <<>>
          /\ MakeMoveCall(state, gen.moves[1]).raised = None
          /\ MakeMoveCall(state, gen.moves[1]).state # state

\* -1, 0 or 1 as x is negative, zero or positive
sign(x) == IF x < 0 THEN -1 ELSE IF x > 0 THEN 1 ELSE 0

\* the squares strictly between two squares of one rank, file or diagonal
Between(a, b) ==
    {(a \div 8) * 8 + (a % 8)
        + k * (8 * sign((b \div 8) - (a \div 8)) + sign((b % 8) - (a % 8))) :
        k \in 1..(max(abs((b \div 8) - (a \div 8)), abs((b % 8) - (a % 8))) - 1)}

\* the piece on square a is of colour c and attacks square sq
Attacks(squares, a, sq, c) ==
    \E piece \in {squares[a]} :
    \E dr \in {(a \div 8) - (sq \div 8)} :
    \E dc \in {(a % 8) - (sq % 8)} :
       /\ piece # "."
       /\ a # sq
       /\ isupper(piece) <=> c = "w"
       /\ \/ /\ piece \in {"P", "p"}
             /\ dr = (IF c = "w" THEN 1 ELSE -1)
             /\ abs(dc) = 1
          \/ /\ piece \in {"N", "n"}
             /\ {abs(dr), abs(dc)} = {1, 2}
          \/ /\ piece \in {"B", "b", "Q", "q"}
             /\ abs(dr) = abs(dc)
             /\ \A mid \in Between(a, sq) : squares[mid] = "."
          \/ /\ piece \in {"R", "r", "Q", "q"}
             /\ dr = 0 \/ dc = 0
             /\ \A mid \in Between(a, sq) : squares[mid] = "."
          \/ /\ piece \in {"K", "k"}
             /\ abs(dr) <= 1
             /\ abs(dc) <= 1

\* C17: on every reached board, for every square and either colour,
\* is_square_attacked is true exactly when a piece of that colour attacks the
\* square: a pawn one diagonal step behind it in that colour's direction of
\* advance, a knight an L-step away, a bishop, rook or queen along its lines
\* with nothing in between, or the king next to it.
IsSquareAttackedIffAttackerExists ==
    \A sq \in 0..63 : \A c \in {"w", "b"} :
       is_square_attacked(board, sq, c) <=>
          \E a \in {occupied \in 0..63 : board[occupied] # "."} :
             Attacks(board, a, sq, c)

\* moves have been played; a rook or queen is lined up with a square of the
\* other side behind a piece that shields it, a bishop, rook or queen attacks
\* a square from a distance, and a pawn and a knight each attack a square
IsSquareAttackedIffAttackerExistsWitness ==
    /\ Len(history) >= 1
    /\ \E a \in 0..63 : \E sq \in 0..63 :
          /\ board[a] \in {"R", "Q", "r", "q"}
          /\ (a \div 8 = sq \div 8) \/ (a % 8 = sq % 8)
          /\ \E mid \in Between(a, sq) : board[mid] # "."
          /\ ~is_square_attacked(board, sq, IF isupper(board[a]) THEN "w" ELSE "b")
    /\ \E a \in 0..63 : \E sq \in 0..63 :
          /\ board[a] \in {"B", "R", "Q"}
          /\ Between(a, sq) # {}
          /\ Attacks(board, a, sq, "w")
          /\ is_square_attacked(board, sq, "w")
    /\ \E a \in 0..63 : \E sq \in 0..63 :
          board[a] = "p" /\ Attacks(board, a, sq, "b") /\ is_square_attacked(board, sq, "b")
    /\ \E a \in 0..63 : \E sq \in 0..63 :
          board[a] = "N" /\ Attacks(board, a, sq, "w") /\ is_square_attacked(board, sq, "w")

\* the squares of a position that hold a piece other than a king
OtherPieces(st) == {i \in 0..63 : st.board[i] \notin {".", "K", "k"}}

\* the position has one king of each colour
OneKingEach(st) ==
    /\ Cardinality({i \in 0..63 : st.board[i] = "K"}) = 1
    /\ Cardinality({i \in 0..63 : st.board[i] = "k"}) = 1

\* a position reached and the positions one legal move after it
ReachedAndNext ==
    {state} \cup {make_move(state, move) : move \in Range(generate_legal_moves(state).moves)}

\* a light square or a dark square
SquareColour(i) == ((i \div 8) + (i % 8)) % 2

\* C18: in every reached position, and after each of its legal moves, with
\* one king of each colour on the board, insufficient_material is true exactly
\* when no other piece is left or the one other piece is a bishop or a
\* knight; so it is false for two knights against the bare king and for
\* bishop against bishop on squares of one colour.
InsufficientMaterialIffKingsAndOneMinor ==
    \A st \in ReachedAndNext :
       OneKingEach(st) =>
          (insufficient_material(st) <=>
              \/ OtherPieces(st) = {}
              \/ /\ Cardinality(OtherPieces(st)) = 1
                 /\ \A i \in OtherPieces(st) : st.board[i] \in {"B", "b", "N", "n"})

\* a bishop took the bishop standing on a square of its own colour: the
\* position before was not insufficient, the one reached (king and bishop
\* against king) is, and so is the one after the king takes the bishop
InsufficientMaterialIffKingsAndOneMinorWitness ==
    /\ Len(history) >= 1
    /\ history[Len(history)].moved_piece = "B"
    /\ history[Len(history)].captured = "b"
    /\ SquareColour(history[Len(history)].move.from_square)
          = SquareColour(history[Len(history)].move.to_square)
    /\ OneKingEach(state)
    /\ ~insufficient_material(undo_move(state))
    /\ insufficient_material(state)
    /\ Cardinality(OtherPieces(state)) = 1
    /\ \E st \in ReachedAndNext : OtherPieces(st) = {} /\ insufficient_material(st)

\* the move a caller builds from the squares and the promotion alone:
\* Move(from_square, to_square, promotion)
Plain(move) == Move(move.from_square, move.to_square, move.promotion, FALSE, FALSE, None)

\* C19: two moves compare equal exactly when their from-square, to-square and
\* promotion are the same, whatever their castle flag, en passant flag and
\* captured piece: each legal move of a reached position against the legal
\* moves and against the moves built from squares and promotion alone.
MoveEqualityIsFromToPromotion ==
    \A gen \in {generate_legal_moves(state)} :
       \A a \in Range(gen.moves) :
          \A b \in Range(gen.moves) \cup {Plain(move) : move \in Range(gen.moves)} :
             Move_eq(a, b) <=>
                /\ a.from_square = b.from_square
                /\ a.to_square = b.to_square
                /\ a.promotion = b.promotion

\* the sum of the piece values of one colour on squares idx..63
RECURSIVE MaterialOf(_, _, _)
MaterialOf(squares, colour, idx) ==
    IF idx > 63 THEN 0
    ELSE (IF squares[idx] # "." /\ (isupper(squares[idx]) <=> colour = "w")
          THEN PIECE_VALUES(upper(squares[idx])) ELSE 0)
         + MaterialOf(squares, colour, idx + 1)

\* the material of the side to move minus the material of the other side
MaterialLead ==
    IF side_to_move = "w" THEN MaterialOf(board, "w", 0) - MaterialOf(board, "b", 0)
    ELSE MaterialOf(board, "b", 0) - MaterialOf(board, "w", 0)

\* C20: in every reached position simple_material_eval is between -1 and 1
\* (between -max_score and max_score on the model's scale, where scores are
\* multiplied by max_score), promoted pieces included, and it is positive
\* exactly when the side to move has more material, negative when it has less.
MaterialEvalWithinUnitRange ==
    /\ -max_score <= simple_material_eval(state)
    /\ simple_material_eval(state) <= max_score
    /\ simple_material_eval(state) > 0 <=> MaterialLead > 0
    /\ simple_material_eval(state) < 0 <=> MaterialLead < 0

\* characters a caller may put in a square name
SquareChars == {"a", "e", "h", "i", "A", "0", "1", "4", "8", "9", " "}

\* the strings of at most three of those characters
SquareTexts ==
    {<<>>} \cup {<<x>> : x \in SquareChars} \cup {<<x, y>> : x, y \in SquareChars}
       \cup {<<x, y, z>> : x, y, z \in SquareChars}

\* a file letter a-h followed by a rank digit 1-8
WellFormedSquare(square) ==
    /\ Len(square) = 2
    /\ square[1] \in {"a", "b", "c", "d", "e", "f", "g", "h"}
    /\ square[2] \in {"1", "2", "3", "4", "5", "6", "7", "8"}

\* C21: the index of a square is row * 8 + file with row 0 the eighth rank and
\* file 0 the a-file (a8 = 0, h1 = 63, and the kings of the start position
\* stand on 60 and 4); index_to_square and square_to_index are inverse
\* bijections between 0..63 and a1..h8, and square_to_index raises (NoSquare)
\* for every string that is not a file letter followed by a rank digit.
SquareIndexingIsBijective ==
    /\ \A row \in 0..7 : \A file \in 0..7 :
          /\ square_to_index(<<FILES[file + 1], RANKS[8 - row]>>) = row * 8 + file
          /\ index_to_square(row * 8 + file) = <<FILES[file + 1], RANKS[8 - row]>>
    /\ \A index \in 0..63 :
          /\ WellFormedSquare(index_to_square(index))
          /\ square_to_index(index_to_square(index)) = index
    /\ \A f \in Range(FILES) : \A r \in Range(RANKS) :
          /\ square_to_index(<<f, r>>) \in 0..63
          /\ index_to_square(square_to_index(<<f, r>>)) = <<f, r>>
    /\ square_to_index(<<"a", "8">>) = 0
    /\ square_to_index(<<"h", "1">>) = 63
    /\ \A square \in SquareTexts :
          square_to_index(square) = NoSquare <=> ~WellFormedSquare(square)
    /\ board = Board_from_fen(START_FEN).squares =>
          /\ locate_king(board, "w") = 60
          /\ locate_king(board, "b") = 4
          /\ index_to_square(locate_king(board, "w")) = <<"e", "1">>
          /\ index_to_square(locate_king(board, "b")) = <<"e", "8">>
    /\ \A k \in 1..Len(history) :
          /\ square_to_index(index_to_square(history[k].move.from_square))
                = history[k].move.from_square
          /\ square_to_index(index_to_square(history[k].move.to_square))
                = history[k].move.to_square

\* the start position, with its kings on e1 = 60 and e8 = 4, while strings
\* such as "i1", "a9", "a0", "A1" and "e44" are refused
SquareIndexingIsBijectiveWitness ==
    /\ board = Board_from_fen(START_FEN).squares
    /\ board[square_to_index(<<"e", "1">>)] = "K"
    /\ board[square_to_index(<<"e", "8">>)] = "k"
    /\ \A square \in {<<"i", "1">>, <<"a", "9">>, <<"a", "0">>, <<"A", "1">>,
                      <<"e", "4", "4">>, <<"e">>, <<>>} :
          square \in SquareTexts /\ square_to_index(square) = NoSquare

\* what clone() would return now has the board, side to move, castling rights,
\* en passant target, clocks and repetition counts of the original
CloneEqualsOriginal ==
    \E cloned \in {clone(state)} :
       /\ cloned.state.board = board
       /\ cloned.state.side_to_move = side_to_move
       /\ cloned.state.castling_rights = castling_rights
       /\ cloned.state.en_passant = en_passant
       /\ cloned.state.halfmove_clock = halfmove_clock
       /\ cloned.state.fullmove_number = fullmove_number
       /\ cloned.state.repetition = repetition
       /\ to_fen(cloned.state) = to_fen(state)

\* a step taken while a clone exists changes the original or the clone, never both
OneObjectChanges ==
    (snapshot.taken /\ snapshot'.taken) =>
       \/ state' = state
       \/ snapshot_state' = snapshot_state

\* C22: clone() returns a GameState with the board, side to move, castling
\* rights, en passant target, clocks and repetition counts of the original,
\* and afterwards no make_move or undo_move on the clone changes the board,
\* metadata, repetition table or history of the original, nor one on the
\* original those of the clone.
CloneIsIndependentSnapshot == []CloneEqualsOriginal /\ [][OneObjectChanges]_vars

\* a clone was taken, two moves were made on it and two on the original after
\* the clone was taken, and the two boards differ
CloneIsIndependentSnapshotWitness ==
    /\ snapshot.taken
    /\ Len(snapshot.state.history) = 2
    /\ Len(history) = 2
    /\ snapshot_state.board # board
    /\ Get(snapshot.state.repetition, repetition_key(state), 0) = 0
    /\ Get(repetition, repetition_key(snapshot_state), 0) = 0

\* the greatest of a non-empty set of scores
Greatest(scores) == CHOOSE x \in scores : \A y \in scores : y <= x

\* the legal moves of a position that capture, as quiescence_search selects them
CapturingMoves(st) ==
    {move \in Range(generate_legal_moves(st).moves) :
        move.captured # None \/ move.is_en_passant}

\* quiescence without a window: the stand-pat score, or the best of it and of
\* the capturing moves searched depth plies further
RECURSIVE PlainQuiescence(_, _)
PlainQuiescence(st, depth) ==
    IF depth <= 0 THEN evaluate_position(st)
    ELSE Greatest({evaluate_position(st)} \cup
                  {-PlainQuiescence(make_move(st, move), depth - 1) :
                      move \in CapturingMoves(st)})

\* negamax without a window and without move ordering, with the draw rules,
\* the mate and stalemate scores and the horizon of alpha_beta
RECURSIVE PlainNegamax(_, _, _)
PlainNegamax(st, depth, quiescence_depth) ==
    IF st.halfmove_clock >= 100 \/ insufficient_material(st) \/ is_draw_by_repetition(st)
    THEN 0
    ELSE IF depth = 0 THEN PlainQuiescence(st, quiescence_depth)
    ELSE IF generate_legal_moves(st).moves = <<>>
    THEN (IF is_in_check(st, st.side_to_move)
          THEN (-MATE_VALUE + (5 - depth)) * max_score ELSE 0)
    ELSE Greatest({-PlainNegamax(make_move(st, move), depth - 1, quiescence_depth) :
                      move \in Range(generate_legal_moves(st).moves)})

\* the score of one root move in the plain search
PlainScore(st, move, depth, quiescence_depth) ==
    -PlainNegamax(make_move(st, move), depth - 1, quiescence_depth)

\* C23: when search_best_move, called with depth >= 1 on a position with a
\* legal move, is about to return, its score is the greatest plain negamax
\* score of the legal moves of that position, and its move is a legal move
\* with that score: pruning and move ordering do not change the root score.
SearchEqualsPlainNegamax ==
    (Len(stack) = 1 /\ stack[1].pc = "return") =>
       \E f \in {stack[1]} :
          /\ f.depth >= 1
          /\ f.ret = f.alpha
          /\ f.alpha = Greatest({PlainScore(state, move, f.depth, f.quiescence_depth) :
                                    move \in Range(generate_legal_moves(state).moves)})
          /\ f.best_move \in Range(generate_legal_moves(state).moves)
          /\ PlainScore(state, f.best_move, f.depth, f.quiescence_depth) = f.alpha

\* a search of depth 2 with quiescence is about to return; its window cut a
\* loop short somewhere, and its root moves do not all score the same
SearchEqualsPlainNegamaxWitness ==
    /\ Len(stack) = 1
    /\ stack[1].pc = "return"
    /\ stack[1].depth = 2
    /\ stack[1].quiescence_depth = 1
    /\ Len(stack[1].moves) >= 2
    /\ \E m1, m2 \in Range(stack[1].moves) :
          PlainScore(state, m1, 2, 1) # PlainScore(state, m2, 2, 1)
    /\ stack[1].alpha # 0

\* a draw rule of alpha_beta applies to the position
DrawRuleApplies(st) ==
    st.halfmove_clock >= 100 \/ insufficient_material(st) \/ is_draw_by_repetition(st)

\* C24: every node alpha_beta is called on, the nodes at remaining depth 0
\* included, whose position has no legal move and falls under no draw rule
\* returns -MATE_VALUE + (5 - depth) if the side to move is in check and 0
\* otherwise.
NoLegalMoveScoresMateOrStalemate ==
    \A k \in 2..Len(stack) :
       ( /\ k = Len(stack)
         /\ stack[k - 1].fn \in {"search_best_move", "alpha_beta"}
         /\ ~DrawRuleApplies(state)
         /\ generate_legal_moves(state).moves = <<>> ) =>
          /\ stack[k].pc = "return"
          /\ stack[k].ret = IF is_in_check(state, side_to_move)
                            THEN (-MATE_VALUE + (5 - (stack[k - 1].depth - 1))) * max_score
                            ELSE 0

\* the position the frame at stack index k is searching: the game state with the
\* moves of the frames above it taken back
NodePosition(k) == Undone(state, Len(stack) - k)

\* the move takes an enemy piece off the board of st: from its to-square, or,
\* for a pawn moving onto the en passant target, from the square behind it
TakesPiece(st, move) ==
    \/ /\ st.board[move.to_square] # "."
       /\ piece_color(st.board[move.to_square]) # st.side_to_move
    \/ /\ move.is_en_passant
       /\ st.board[move.from_square] = (IF st.side_to_move = "w" THEN "P" ELSE "p")
       /\ move.to_square = st.en_passant
       /\ st.board[EpCaptureSquare(st.side_to_move, move)]
              = (IF st.side_to_move = "w" THEN "p" ELSE "P")

\* the quiescence frames among the first k frames of the stack
QuiescencePlies(k) == Cardinality({j \in 1..k : stack[j].fn = "quiescence_search"})

\* the move a quiescence frame has applied is a legal move of its position that
\* takes a piece, and a quiescence frame is at most quiescence_depth plies below
\* the horizon
QuiescenceFrameExpandsCapture(k) ==
    /\ stack[k].depth \in 0..stack[1].quiescence_depth
    /\ QuiescencePlies(k) = stack[1].quiescence_depth - stack[k].depth + 1
    /\ k < Len(stack) =>
           /\ stack[k].pc = "loop"
           /\ stack[k].i < Len(stack[k].moves)
           /\ \E legal \in {generate_legal_moves(NodePosition(k)).moves} :
                  /\ stack[k].moves[stack[k].i + 1] \in Range(legal)
                  /\ Range(stack[k].moves) = Range(legal)
           /\ TakesPiece(NodePosition(k), stack[k].moves[stack[k].i + 1])

\* Move.captured of a generated move is the piece on its to-square when that is
\* an enemy piece, and None otherwise
CapturedCacheMatchesBoard(st) ==
    \A move \in Range(generate_pseudo_legal_moves(st)) :
        IF st.board[move.to_square] # "." /\ piece_color(st.board[move.to_square]) # st.side_to_move
        THEN move.captured = st.board[move.to_square]
        ELSE move.captured = None

\* the moves a quiescence frame has passed over since index `from`, up to the
\* move it stopped at or the end of its list, take no piece
PassedOverTakeNothing(f, st, from) ==
    \A j \in (from + 1)..f.i : ~TakesPiece(st, f.moves[j])

\* a step that leaves a quiescence frame on top of the stack has passed over
\* only moves that take nothing
QuiescenceSkipsOnlyQuietMoves ==
    (stack' # <<>> /\ stack'[Len(stack')].fn = "quiescence_search") =>
        IF Len(stack') > Len(stack)
        THEN PassedOverTakeNothing(stack'[Len(stack')], state', 0)
        ELSE IF Len(stack') < Len(stack)
        THEN PassedOverTakeNothing(stack'[Len(stack')], state', stack[Len(stack')].i + 1)
        ELSE TRUE

\* C25: quiescence_search expands exactly the legal moves that take a piece
\* (onto an enemy-occupied square, or en passant) and passes over every other
\* move; it recurses at most quiescence_depth plies below the horizon; and
\* Move.captured of a generated move is non-empty exactly when the move's
\* to-square is enemy-occupied at generation time
QuiescenceExpandsExactlyCaptures ==
    /\ [](/\ \A k \in 1..Len(stack) :
                 stack[k].fn = "quiescence_search" => QuiescenceFrameExpandsCapture(k)
          /\ CapturedCacheMatchesBoard(state))
    /\ [][QuiescenceSkipsOnlyQuietMoves]_vars

\* a quiescence frame two plies below the horizon, reached by an en passant
\* capture that followed a quiet move passed over, with the budget used up
QuiescenceExpandsExactlyCapturesWitness ==
    /\ Len(stack) >= 3
    /\ stack[Len(stack)].fn = "quiescence_search"
    /\ stack[Len(stack)].depth = 0
    /\ stack[Len(stack) - 1].fn = "quiescence_search"
    /\ stack[Len(stack) - 1].i > 0
    /\ stack[Len(stack) - 1].moves[stack[Len(stack) - 1].i + 1].is_en_passant

\* the squares of a castle by the king's destination: king home, rook corner,
\* rook destination, and the king, the rook and the two rights of that colour
CastleTable(to_square) ==
    CASE to_square = 62 -> [king_from |-> 60, rook_from |-> 63, rook_to |-> 61,
                            king |-> "K", rook |-> "R", rights |-> {"K", "Q"}]
      [] to_square = 58 -> [king_from |-> 60, rook_from |-> 56, rook_to |-> 59,
                            king |-> "K", rook |-> "R", rights |-> {"K", "Q"}]
      [] to_square = 6  -> [king_from |-> 4, rook_from |-> 7, rook_to |-> 5,
                            king |-> "k", rook |-> "r", rights |-> {"k", "q"}]
      [] to_square = 2  -> [king_from |-> 4, rook_from |-> 0, rook_to |-> 3,
                            king |-> "k", rook |-> "r", rights |-> {"k", "q"}]
      [] OTHER -> [king_from |-> NoSquare, rook_from |-> NoSquare, rook_to |-> NoSquare,
                   king |-> None, rook |-> None, rights |-> {}]

\* the board and the rights after the castle `move`, and after taking it back
CastleMadeAndUndone(st, move, made, undone) ==
    \E t \in {CastleTable(move.to_square)} :
       /\ move.from_square = t.king_from
       /\ made.board[move.to_square] = t.king
       /\ made.board[t.rook_to] = t.rook
       /\ made.board[t.king_from] = "."
       /\ made.board[t.rook_from] = "."
       /\ \A sq \in 0..63 \ {move.to_square, t.rook_to, t.king_from, t.rook_from} :
              made.board[sq] = st.board[sq]
       /\ Held(made.castling_rights) = Held(st.castling_rights) \ t.rights
       /\ undone.board[t.king_from] = t.king
       /\ undone.board[t.rook_from] = t.rook
       /\ undone.board[move.to_square] = "."
       /\ undone.board[t.rook_to] = "."
       /\ undone.board = st.board
       /\ undone.castling_rights = st.castling_rights

\* C26: applying a legal castle move of a reached position puts the king on its
\* destination and the matching rook beside it (g1: h1->f1, c1: a1->d1,
\* g8: h8->f8, c8: a8->d8), leaves the king's and the rook's origin squares
\* empty and clears both castling rights of the castling colour; undo_move puts
\* king and rook back on their home squares, empties the two destination
\* squares and restores the rights held before.
CastleRelocatesRookAndUndoRestores ==
    \A gen \in {generate_legal_moves(state)} :
       \A i \in 1..Len(gen.moves) :
          gen.moves[i].is_castle =>
             \E made \in {make_move(state, gen.moves[i])} :
                CastleMadeAndUndone(state, gen.moves[i], made, undo_move(made))

\* black has just castled queenside after white castled kingside, both sides
\* having held both rights: rooks on f1 and d8, kings on g1 and c8
CastleRelocatesRookAndUndoRestoresWitness ==
    /\ Len(history) >= 2
    /\ history[Len(history) - 1].move.is_castle
    /\ history[Len(history) - 1].move.to_square = 62
    /\ Held(history[Len(history) - 1].prev_castling) = {"K", "Q", "k", "q"}
    /\ history[Len(history)].move.is_castle
    /\ history[Len(history)].move.to_square = 2
    /\ board[61] = "R" /\ board[62] = "K" /\ board[63] = "." /\ board[60] = "."
    /\ board[3] = "r" /\ board[2] = "k" /\ board[0] = "." /\ board[4] = "."
    /\ castling_rights = <<>>

\* the square directly behind the to-square of a pawn move by `side`
SquareBehind(side, to_square) == IF side = "w" THEN to_square + 8 ELSE to_square - 8

\* the last move played in st, if any, was the double push of the pawn now on `sq`
JustDoublePushed(st, sq) ==
    st.history # <<>> =>
       \E last \in {st.history[Len(st.history)]} :
          /\ last.move.to_square = sq
          /\ last.moved_piece = st.board[sq]
          /\ last.move.from_square \in {sq - 16, sq + 16}

\* the position after the en passant capture `move`, and after taking it back
EnPassantMadeAndUndone(st, move, made, undone) ==
    \E pawn \in {IF st.side_to_move = "w" THEN "P" ELSE "p"} :
    \E victim \in {IF st.side_to_move = "w" THEN "p" ELSE "P"} :
    \E behind \in {SquareBehind(st.side_to_move, move.to_square)} :
       /\ st.board[move.from_square] = pawn
       /\ st.board[move.to_square] = "."
       /\ st.board[behind] = victim
       /\ JustDoublePushed(st, behind)
       /\ made.board[move.to_square] = pawn
       /\ made.board[move.from_square] = "."
       /\ made.board[behind] = "."
       /\ \A sq \in 0..63 \ {move.to_square, move.from_square, behind} :
              made.board[sq] = st.board[sq]
       /\ made.history[Len(made.history)].captured = victim
       /\ made.halfmove_clock = 0
       /\ undone.board[behind] = victim
       /\ undone.board[move.from_square] = pawn
       /\ undone.board[move.to_square] = "."
       /\ undone.board = st.board

\* C27: applying a legal en passant move of a reached position leaves the
\* capturing pawn on the to-square, empties the from-square and the square
\* directly behind the to-square (to+8 for white, to-8 for black), which held
\* the enemy pawn that just double-pushed; that pawn is recorded as the captured
\* piece and the halfmove clock is 0; undo_move puts the enemy pawn back on
\* that square and the capturing pawn back on from, and leaves to empty.
EnPassantRemovesPawnBehindTarget ==
    \A gen \in {generate_legal_moves(state)} :
       \A i \in 1..Len(gen.moves) :
          gen.moves[i].is_en_passant =>
             \E made \in {make_move(state, gen.moves[i])} :
                EnPassantMadeAndUndone(state, gen.moves[i], made, undo_move(made))

\* black has just taken en passant the white pawn that double-pushed the move
\* before: the pawn behind the target is gone and the clock is 0
EnPassantRemovesPawnBehindTargetWitness ==
    /\ Len(history) >= 2
    /\ history[Len(history)].move.is_en_passant
    /\ history[Len(history)].prev_side = "b"
    /\ history[Len(history)].captured = "P"
    /\ history[Len(history)].ep_capture_square = history[Len(history)].move.to_square - 8
    /\ history[Len(history) - 1].move.to_square = history[Len(history)].ep_capture_square
    /\ board[history[Len(history)].move.to_square] = "p"
    /\ board[history[Len(history)].ep_capture_square] = "."
    /\ halfmove_clock = 0

\* the moves of the list that go from `from` to `to`, by their index
MovesBetween(moves, from, to) ==
    {i \in 1..Len(moves) : moves[i].from_square = from /\ moves[i].to_square = to}

\* the far rank of the side to move, as a board row
FarRow(side) == IF side = "w" THEN 0 ELSE 7

\* the pawn moves of st onto the far rank come in fours, one per promotion kind,
\* and no other generated move promotes
PromotionsComeInFours(st) ==
    \E moves \in {generate_pseudo_legal_moves(st)} :
       /\ \A i \in 1..Len(moves) :
             \/ /\ st.board[moves[i].from_square] = (IF st.side_to_move = "w" THEN "P" ELSE "p")
                /\ moves[i].to_square \div 8 = FarRow(st.side_to_move)
                /\ Cardinality(MovesBetween(moves, moves[i].from_square, moves[i].to_square)) = 4
                /\ {moves[j].promotion :
                       j \in MovesBetween(moves, moves[i].from_square, moves[i].to_square)}
                      = {"Q", "R", "B", "N"}
             \/ /\ ~(/\ st.board[moves[i].from_square] \in {"P", "p"}
                     /\ moves[i].to_square \div 8 = FarRow(st.side_to_move))
                /\ moves[i].promotion = None

\* the board after the promoting move, and after taking it back
PromotionMadeAndUndone(st, move, made, undone) ==
    /\ made.board[move.to_square] =
          (CASE move.promotion = "Q" -> IF st.side_to_move = "w" THEN "Q" ELSE "q"
             [] move.promotion = "R" -> IF st.side_to_move = "w" THEN "R" ELSE "r"
             [] move.promotion = "B" -> IF st.side_to_move = "w" THEN "B" ELSE "b"
             [] move.promotion = "N" -> IF st.side_to_move = "w" THEN "N" ELSE "n"
             [] OTHER -> None)
    /\ made.board[move.from_square] = "."
    /\ undone.board[move.from_square] = (IF st.side_to_move = "w" THEN "P" ELSE "p")
    /\ undone.board[move.to_square] = st.board[move.to_square]
    /\ undone.board = st.board

\* C28: in every reached position a pawn push or capture onto the far rank is
\* generated as exactly four moves, one each for queen, rook, bishop and knight,
\* and never as a move without promotion; applying a legal one puts the
\* promoted piece on the to-square in the mover's case (upper for white, lower
\* for black), and undo_move puts the pawn back on from and the captured piece
\* (or nothing) back on to.
PromotionFourKindsInMoversColour ==
    /\ PromotionsComeInFours(state)
    /\ \A gen \in {generate_legal_moves(state)} :
          \A i \in 1..Len(gen.moves) :
             gen.moves[i].promotion # None =>
                \E made \in {make_move(state, gen.moves[i])} :
                   PromotionMadeAndUndone(state, gen.moves[i], made, undo_move(made))

\* white promoted by a push and black has just promoted to a bishop by a capture
PromotionFourKindsInMoversColourWitness ==
    /\ Len(history) >= 2
    /\ history[Len(history) - 1].move.promotion # None
    /\ history[Len(history) - 1].prev_side = "w"
    /\ history[Len(history) - 1].captured = None
    /\ history[Len(history)].move.promotion = "B"
    /\ history[Len(history)].prev_side = "b"
    /\ history[Len(history)].captured # None
    /\ board[history[Len(history)].move.to_square] = "b"

\* the home row of the pawns of `side`, as a board row
HomeRow(side) == IF side = "w" THEN 6 ELSE 1

\* what the generator observes for one move of the position st
MoveFitsBoard(st, move) ==
    \E piece \in {st.board[move.from_square]} :
    \E dr \in {(move.to_square \div 8) - (move.from_square \div 8)} :
    \E dc \in {(move.to_square % 8) - (move.from_square % 8)} :
       /\ move.from_square \in 0..63
       /\ move.to_square \in 0..63
       /\ piece # "."
       /\ piece_color(piece) = st.side_to_move
       /\ piece_color(st.board[move.to_square]) # st.side_to_move
       /\ upper(piece) \in {"B", "R", "Q"} =>
             /\ abs(dr) = abs(dc) \/ dr = 0 \/ dc = 0
             /\ \A sq \in Between(move.from_square, move.to_square) : st.board[sq] = "."
       /\ (upper(piece) = "P" /\ dc = 0) =>
             /\ st.board[move.to_square] = "."
             /\ dr \in (IF st.side_to_move = "w" THEN {-1, -2} ELSE {1, 2})
             /\ abs(dr) = 2 =>
                   /\ move.from_square \div 8 = HomeRow(st.side_to_move)
                   /\ \A sq \in Between(move.from_square, move.to_square) : st.board[sq] = "."
       /\ (upper(piece) = "P" /\ dc # 0) =>
             /\ abs(dc) = 1
             /\ dr = (IF st.side_to_move = "w" THEN -1 ELSE 1)
             /\ \/ /\ st.board[move.to_square] # "."
                   /\ piece_color(st.board[move.to_square]) # st.side_to_move
                \/ move.to_square = st.en_passant

\* C29: every move of generate_pseudo_legal_moves in a reached position moves a
\* piece of the side to move to a square of the board that holds no piece of
\* that colour; bishop, rook and queen moves and pawn double pushes cross only
\* empty squares; pawn pushes land on empty squares, double pushes start from
\* the home rank, and pawn diagonal moves land on an enemy piece or on the en
\* passant target.
PseudoLegalMovesFitBoard ==
    \A move \in Range(generate_pseudo_legal_moves(state)) : MoveFitsBoard(state, move)

\* a position whose generated moves include a bishop's capture at the end of a
\* ray of empty squares, a pawn's double push and an en passant capture
PseudoLegalMovesFitBoardWitness ==
    \E moves \in {Range(generate_pseudo_legal_moves(state))} :
       /\ \E move \in moves :
             /\ board[move.from_square] \in {"B", "b"}
             /\ move.captured # None
             /\ Cardinality(Between(move.from_square, move.to_square)) >= 2
       /\ \E move \in moves :
             /\ board[move.from_square] \in {"P", "p"}
             /\ abs(move.to_square - move.from_square) = 16
       /\ \E move \in moves : move.is_en_passant

\* the value of the piece the move takes off the board of st, 0 if it takes none
VictimValue(st, move) ==
    IF move.is_en_passant
    THEN PIECE_VALUES(upper(st.board[SquareBehind(st.side_to_move, move.to_square)]))
    ELSE IF st.board[move.to_square] # "." THEN PIECE_VALUES(upper(st.board[move.to_square]))
    ELSE 0

\* `ordered` holds the moves of `moves`, each as often as `moves` does
IsPermutation(ordered, moves) ==
    /\ Len(ordered) = Len(moves)
    /\ \A move \in Range(moves) \cup Range(ordered) :
          Cardinality({i \in 1..Len(ordered) : ordered[i] = move})
             = Cardinality({i \in 1..Len(moves) : moves[i] = move})

\* in `ordered` the moves that take a piece in st come before the others, the
\* more valuable victims first
CapturesFirstByVictim(st, ordered) ==
    \A i \in 1..Len(ordered) : \A j \in (i + 1)..Len(ordered) :
       /\ TakesPiece(st, ordered[j]) => TakesPiece(st, ordered[i])
       /\ TakesPiece(st, ordered[j]) => VictimValue(st, ordered[i]) >= VictimValue(st, ordered[j])

\* C30: order_moves returns a permutation of the legal moves it is given (none
\* added, dropped or duplicated) in which every move that captures a piece
\* comes before every move that captures none, and the capturing moves are in
\* non-increasing order of the value of the piece they capture.
OrderMovesPutsCapturesFirst ==
    \E gen \in {generate_legal_moves(state)} :
    \E ordered \in {order_moves(gen.moves)} :
       /\ IsPermutation(ordered, gen.moves)
       /\ CapturesFirstByVictim(state, ordered)

\* the moves the running search has applied on top of the position it was given
AppliedBySearch == Len(history) - Len(entry.history)

\* C31: the search is fixed-depth: for every depth >= 0 and quiescence_depth
\* >= 0, a running search_best_move never has more than depth +
\* quiescence_depth moves applied on top of the root position, and the calls
\* below the root are alpha_beta for exactly depth plies and quiescence_search
\* from there on.
SearchIsFixedDepth ==
    stack # <<>> =>
       /\ AppliedBySearch <= stack[1].depth + stack[1].quiescence_depth
       /\ \A k \in 2..Len(stack) :
             IF stack[k].fn = "alpha_beta"
             THEN /\ stack[k].depth = stack[1].depth - (k - 1)
                  /\ stack[k].depth >= 0
                  /\ k < Len(stack) => stack[k].depth >= 1
             ELSE /\ stack[k].fn = "quiescence_search"
                  /\ k > stack[1].depth
                  /\ k = stack[1].depth + 1 \/ stack[k - 1].fn = "quiescence_search"

\* the king's home square and the rook's corner of a castling right
RightSquares(right) ==
    CASE right = "K" -> [king |-> "K", home |-> 60, rook |-> "R", corner |-> 63, dest |-> 62]
      [] right = "Q" -> [king |-> "K", home |-> 60, rook |-> "R", corner |-> 56, dest |-> 58]
      [] right = "k" -> [king |-> "k", home |-> 4, rook |-> "r", corner |-> 7, dest |-> 6]
      [] right = "q" -> [king |-> "k", home |-> 4, rook |-> "r", corner |-> 0, dest |-> 2]

\* every right held in st has its king at home and its rook on the corner
RightsMatchPlacement(st) ==
    \A right \in Held(st.castling_rights) \cap {"K", "Q", "k", "q"} :
       /\ st.board[RightSquares(right).home] = RightSquares(right).king
       /\ st.board[RightSquares(right).corner] = RightSquares(right).rook

\* every castle the generator offers in st has the rook of the king's colour on
\* the corner it castles with
CastlesHaveTheirRook(st) ==
    \A move \in Range(generate_pseudo_legal_moves(st)) :
       move.is_castle =>
          \E right \in {"K", "Q", "k", "q"} :
             /\ RightSquares(right).home = move.from_square
             /\ RightSquares(right).dest = move.to_square
             /\ st.board[RightSquares(right).home] = RightSquares(right).king
             /\ st.board[RightSquares(right).corner] = RightSquares(right).rook

\* C32: in every state reached by legal make_move and undo_move calls from a
\* position whose castling rights match its piece placement, each right held
\* has the king of its colour on e1/e8 and a rook of its colour on the right's
\* corner, so every castle the generator offers has its own rook to castle with.
CastlingRightsImplyKingAndRookAtHome ==
    RightsMatchPlacement(Undone(state, Len(history))) =>
       /\ RightsMatchPlacement(state)
       /\ CastlesHaveTheirRook(state)

\* the queenside rook has left a1 and taken the rook on a8; the two kingside
\* rights are still held, with kings and kingside rooks at home
CastlingRightsImplyKingAndRookAtHomeWitness ==
    /\ history # <<>>
    /\ RightsMatchPlacement(Undone(state, Len(history)))
    /\ Held(Undone(state, Len(history)).castling_rights) = {"K", "Q", "k", "q"}
    /\ history[Len(history)].moved_piece = "R"
    /\ history[Len(history)].move.from_square = 56
    /\ history[Len(history)].captured = "r"
    /\ Held(castling_rights) = {"K", "k"}
    /\ board[56] = "." /\ board[0] = "R"

\* the side that is not to move in st
SideNotToMove(st) == IF st.side_to_move = "w" THEN "b" ELSE "w"

\* one king each, and the side that just moved has not left its king in check
KingsSafeFromCapture(st) ==
    /\ OneKingEach(st)
    /\ ~is_in_check(st, SideNotToMove(st))

\* no move the generator produces in st lands on a king, and the position after
\* each of them (the one generate_legal_moves tries and takes back) has both kings
NoMoveCapturesKing(st) ==
    \A move \in Range(generate_pseudo_legal_moves(st)) :
       /\ st.board[move.to_square] \notin {"K", "k"}
       /\ move.captured \notin {"K", "k"}
       /\ OneKingEach(make_move(st, move))

\* C33: from a constructed position with one king per colour in which the side
\* not to move is not in check, every state reached by legal moves, by the
\* search and by the make/undo inside generate_legal_moves has exactly one
\* white and one black king: no generated move captures a king, and
\* locate_king finds both kings.
KingsAreNeverCaptured ==
    KingsSafeFromCapture(Undone(state, Len(history))) =>
       /\ OneKingEach(state)
       /\ locate_king(board, "w") # NoSquare
       /\ locate_king(board, "b") # NoSquare
       /\ NoMoveCapturesKing(state)

\* inside a search, two plies below a sound root, with a piece taken on the way
\* and the side to move in check
KingsAreNeverCapturedWitness ==
    /\ Len(stack) >= 2
    /\ KingsSafeFromCapture(Undone(state, Len(history)))
    /\ AppliedBySearch >= 2
    /\ \E k \in 1..Len(history) : history[k].captured # None
    /\ is_in_check(state, side_to_move)
    /\ OneKingEach(state)

\* the sum of the counts of a repetition table
RECURSIVE SumOfCounts(_)
SumOfCounts(d) ==
    IF DOMAIN d = {} THEN 0
    ELSE LET key == CHOOSE k \in DOMAIN d : TRUE
         IN d[key] + SumOfCounts(Pop(d, key))

\* the table of st counts the position of st and one position per history entry
RepetitionIsSound(st) ==
    /\ \A key \in DOMAIN st.repetition : st.repetition[key] > 0
    /\ Get(st.repetition, repetition_key(st), 0) >= 1
    /\ SumOfCounts(st.repetition) = Len(st.history) + 1
    /\ st.history # <<>> => st.history[Len(st.history)].rep_key = repetition_key(st)

\* make_move counts the position it reaches once more and nothing else, and
\* undo_move takes exactly that back
MakeCountsAndUndoUncounts(st, made) ==
    /\ made.repetition = Put(st.repetition, repetition_key(made),
                             Get(st.repetition, repetition_key(made), 0) + 1)
    /\ made.history[Len(made.history)].rep_key = repetition_key(made)
    /\ undo_move(made).repetition = st.repetition

\* C34: in every state reached from a constructed GameState by make_move and
\* undo_move the repetition table holds only strictly positive counts, counts
\* the current position at least once, and its counts add up to the length of
\* the history stack plus 1; make_move adds one to the key of the position it
\* reaches, undo_move takes one from the key recorded with the popped move and
\* removes the key at zero.
RepetitionTableCountsHistory ==
    /\ RepetitionIsSound(state)
    /\ \A move \in Range(generate_legal_moves(state).moves) :
          \E made \in {make_move(state, move)} :
             /\ RepetitionIsSound(made)
             /\ MakeCountsAndUndoUncounts(state, made)

\* a position that has occurred twice on the way, with other positions also
\* counted, in a search whose innermost loop has already taken a move back
RepetitionTableCountsHistoryWitness ==
    /\ Len(history) >= 2
    /\ stack # <<>>
    /\ stack[Len(stack)].i >= 1
    /\ repetition[repetition_key(state)] >= 2
    /\ Cardinality(DOMAIN repetition) >= 2
    /\ SumOfCounts(repetition) = Len(history) + 1

====
